---- MODULE Spec2Model ----
(***************************************************************************)
(* A model of the resume validation pipeline (validators/schema.py), of    *)
(* the typed document it relies on (models.py), of the build command that  *)
(* consumes its result (cli.py) and of the builders package (builders/).   *)
(*                                                                         *)
(* Texts are sequences of tokens.  A literal piece of a message is one     *)
(* token, an interpolated number is rendered digit by digit (Str), an      *)
(* interpolated name is one token.  No literal piece of any message of     *)
(* the pipeline contains a digit, so a search for a number in a text is a  *)
(* search among its digit tokens.                                          *)
(***************************************************************************)
EXTENDS Integers, Sequences, FiniteSets, TLC

VARIABLES
    entry,        \* the entry point called: "data", "file" or "build"
    resume,       \* what is found at resume_path
    schema,       \* what is found at schema_path
    data,         \* the parsed content of the resume file (the raw document)
    pc,           \* position of the run
    errors,       \* validate_resume_data: errors
    warnings,     \* validate_resume_data: warnings
    resume_data,  \* validate_resume_data: resume_data
    gates,        \* the gates executed so far, in order
    result,       \* the returned ValidationResult
    cli,          \* the build command: its inputs, its progress and its effects
    _builders,    \* BuilderFactory._builders: normalized format name -> builder class
    call,         \* the last call made on the builders package and its outcome
    registered,   \* the names, as given, registered and not unregistered since
    calls,        \* the number of calls made on the builders package
    builder,      \* the builder a method is called on, and what the method finds around it
    disk,         \* the directories that exist under the output directory
    mkdir         \* the calls of ensure_output_directory in progress, one per caller

\* the state of the validation pipeline and of the build command
pipeline == <<entry, resume, schema, data, pc, errors, warnings, resume_data, gates, result, cli>>

\* the state of the builders package
builders == <<_builders, call, registered, calls>>

\* the state of a builder at work
site == <<builder, disk, mkdir>>

vars == <<entry, resume, schema, data, pc, errors, warnings, resume_data, gates, result, cli,
          _builders, call, registered, calls, builder, disk, mkdir>>

-----------------------------------------------------------------------------
(* Bounds of the model *)

\* most defects injected at once into a raw document
MaxDefects == 2
\* most experience entries of a document given to the business rules
MaxExperience == 2
\* most formats requested from the build command
MaxFormats == 2

\* the calls made on the builders package in one run
MaxCalls == 3

\* the largest limit given to get_top_skills
MaxLimit == 6

\* the depth of the directories under the output root
MaxDepth == 3

-----------------------------------------------------------------------------
(* Generic helpers *)

RECURSIVE Concat(_)
Concat(ss) == IF Len(ss) = 0 THEN <<>> ELSE Head(ss) \o Concat(Tail(ss))

RECURSIVE SumSeq(_)
SumSeq(s) == IF Len(s) = 0 THEN 0 ELSE Head(s) + SumSeq(Tail(s))

Digits == <<"0", "1", "2", "3", "4", "5", "6", "7", "8", "9">>

\* str(n) of a non-negative integer, one token per digit
RECURSIVE Str(_)
Str(n) == IF n < 10 THEN <<Digits[n + 1]>> ELSE Str(n \div 10) \o <<Digits[(n % 10) + 1]>>

\* sep.join(parts), each part a text
RECURSIVE Join(_, _)
Join(parts, sep) ==
    IF Len(parts) = 0 THEN <<>>
    ELSE IF Len(parts) = 1 THEN parts[1]
    ELSE parts[1] \o <<sep>> \o Join(Tail(parts), sep)

\* needle in text
Contains(text, needle) ==
    \E i \in 0..(Len(text) - Len(needle)) :
        \A j \in 1..Len(needle) : text[i + j] = needle[j]

\* the ValidationResult's data when there is none
None == [none |-> TRUE]

\* an absent end_date
NoDate == <<>>

-----------------------------------------------------------------------------
(* Raw documents *)

\* n achievements, all alike
Achievements(n, enhanced, metrics) ==
    [j \in 1..n |-> [ai_enhanced |-> enhanced, metrics |-> metrics]]

\* n skills
SkillList(n) == [j \in 1..n |-> [name |-> j, proficiency |-> "expert"]]

Experience(company, start, end, achievements) ==
    [company |-> company, start_date |-> start, end_date |-> end,
     achievements |-> achievements]

Companies == <<"A", "B", "C", "D">>

\* the top-level keys the documents of the model vary, in the order the typed
\* document declares them
TopKeys == <<"version", "last_updated", "personal_info", "professional_summary",
             "experience", "skills", "education">>

AllPresent == [k \in {TopKeys[i] : i \in 1..Len(TopKeys)} |-> "ok"]

\* a document is a mapping: top gives, per top-level key, "ok" (present, of
\* the declared shape), "absent" or "badtype"; the other fields are the
\* contents of the sections that are present
Document(top, extra, name_len, overview_len, experience, categories, education_n) ==
    [kind |-> "mapping", top |-> top, extra |-> extra, name_len |-> name_len,
     overview_len |-> overview_len, experience |-> experience,
     categories |-> categories, education_n |-> education_n]

\* a resume file whose YAML content is a list, not a mapping
NotAMapping == [kind |-> "list"]

\* no document: the resume file was not parsed
NoData == [kind |-> "none"]

-----------------------------------------------------------------------------
(* Gate 1: the structural schema (the schema of the test suite) *)

SchemaRequired == <<"version", "personal_info", "professional_summary",
                    "experience", "skills", "education">>

SchemaProperties == <<"version", "last_updated", "personal_info",
                      "professional_summary", "experience", "skills", "education">>

SchemaType == [version |-> "string", last_updated |-> "string",
               personal_info |-> "object", professional_summary |-> "object",
               experience |-> "array", skills |-> "object", education |-> "array"]

\* every violation jsonschema finds, in the order it iterates the schema's
\* keywords: type, required, properties
SchemaErrors(doc) ==
    IF doc.kind # "mapping"
    THEN <<[path |-> <<>>, message |-> <<"instance", " is not of type ", "object">>]>>
    ELSE Concat([i \in 1..Len(SchemaRequired) |->
                    IF doc.top[SchemaRequired[i]] = "absent"
                    THEN <<[path |-> <<>>,
                            message |-> <<SchemaRequired[i], " is a required property">>]>>
                    ELSE <<>>])
         \o
         Concat([i \in 1..Len(SchemaProperties) |->
                    IF doc.top[SchemaProperties[i]] = "badtype"
                    THEN <<[path |-> <<SchemaProperties[i]>>,
                            message |-> <<"value", " is not of type ",
                                          SchemaType[SchemaProperties[i]]>>]>>
                    ELSE <<>>])

\* jsonschema.validate raises one error, the most relevant: the first of
\* those with the shortest path
BestMatch(errs) ==
    LET best == CHOOSE i \in 1..Len(errs) :
                    /\ \A j \in 1..Len(errs) : Len(errs[i].path) <= Len(errs[j].path)
                    /\ \A j \in 1..(i - 1) : Len(errs[j].path) > Len(errs[i].path)
    IN  errs[best]

\* what the handler of jsonschema.ValidationError appends to errors
SchemaErrorLines(e) ==
    <<(<<"Schema validation error: ">> \o e.message)>>
    \o (IF Len(e.path) > 0
        THEN <<(<<"  Path: ">> \o Join([i \in 1..Len(e.path) |-> <<e.path[i]>>], " -> "))>>
        ELSE <<>>)

-----------------------------------------------------------------------------
(* Gate 2: typed model construction *)

NameMin == 2
NameMax == 100
OverviewMin == 100
OverviewMax == 1000
AchievementsMin == 2
AchievementsMax == 8
SkillsMin == 1
ExperienceMin == 1
EducationMin == 1

\* the members of Metric.value's union, in declaration order
MetricValueUnion == <<"str", "int", "float">>

IsMember(x, s) == \E i \in 1..Len(s) : s[i] = x

\* start_date and end_date match ^\d{4}-\d{2}$
DatePattern(d) == Len(d) = 2 /\ d[1] \in 0..9999 /\ d[2] \in 0..99

\* one error of the construction: loc is the path to the field, each element
\* a text (a key, or an index rendered by Str)
Err(loc, msg) == [loc |-> loc, msg |-> msg]

\* a value that is none of str, int, float fails every member of the union,
\* and each member reports
MetricErrors(loc, value) ==
    IF IsMember(value, MetricValueUnion) THEN <<>>
    ELSE [u \in 1..Len(MetricValueUnion) |->
            Err(loc \o << <<"value">>, <<MetricValueUnion[u]>> >>, <<"Input should be a valid ", MetricValueUnion[u]>>)]

AchievementErrors(loc, a) ==
    Concat([m \in 1..Len(a.metrics) |->
                MetricErrors(loc \o << <<"metrics">>, Str(m - 1) >>, a.metrics[m])])

ExperienceErrors(loc, e) ==
    (IF DatePattern(e.start_date) THEN <<>>
     ELSE <<Err(loc \o << <<"start_date">> >>, <<"String should match pattern">>)>>)
    \o
    (IF e.end_date = NoDate \/ DatePattern(e.end_date) THEN <<>>
     ELSE <<Err(loc \o << <<"end_date">> >>, <<"String should match pattern">>)>>)
    \o
    (IF Len(e.achievements) < AchievementsMin
     THEN <<Err(loc \o << <<"achievements">> >>, <<"List should have at least ">> \o Str(AchievementsMin) \o <<" items">>)>>
     ELSE IF Len(e.achievements) > AchievementsMax
     THEN <<Err(loc \o << <<"achievements">> >>, <<"List should have at most ">> \o Str(AchievementsMax) \o <<" items">>)>>
     ELSE Concat([j \in 1..Len(e.achievements) |->
                    AchievementErrors(loc \o << <<"achievements">>, Str(j - 1) >>, e.achievements[j])]))

\* the errors of one top-level field that is present with the declared shape
FieldErrors(doc, k) ==
    CASE k = "personal_info" ->
            IF doc.name_len < NameMin
            THEN <<Err(<< <<k>>, <<"name">> >>, <<"String should have at least ">> \o Str(NameMin) \o <<" characters">>)>>
            ELSE IF doc.name_len > NameMax
            THEN <<Err(<< <<k>>, <<"name">> >>, <<"String should have at most ">> \o Str(NameMax) \o <<" characters">>)>>
            ELSE <<>>
      [] k = "professional_summary" ->
            IF doc.overview_len < OverviewMin
            THEN <<Err(<< <<k>>, <<"overview">> >>, <<"String should have at least ">> \o Str(OverviewMin) \o <<" characters">>)>>
            ELSE IF doc.overview_len > OverviewMax
            THEN <<Err(<< <<k>>, <<"overview">> >>, <<"String should have at most ">> \o Str(OverviewMax) \o <<" characters">>)>>
            ELSE <<>>
      [] k = "experience" ->
            IF Len(doc.experience) < ExperienceMin
            THEN <<Err(<< <<k>> >>, <<"List should have at least ">> \o Str(ExperienceMin) \o <<" item">>)>>
            ELSE Concat([i \in 1..Len(doc.experience) |->
                            ExperienceErrors(<< <<k>>, Str(i - 1) >>, doc.experience[i])])
      [] k = "skills" ->
            Concat([c \in 1..Len(doc.categories) |->
                        IF Len(doc.categories[c]) < SkillsMin
                        THEN <<Err(<< <<k>>, <<"categories">>, <<"category">> \o Str(c) , <<"skills">> >>,
                                   <<"List should have at least ">> \o Str(SkillsMin) \o <<" item">>)>>
                        ELSE <<>>])
      [] k = "education" ->
            IF doc.education_n < EducationMin
            THEN <<Err(<< <<k>> >>, <<"List should have at least ">> \o Str(EducationMin) \o <<" item">>)>>
            ELSE <<>>
      [] OTHER -> <<>>

\* ResumeData(**data): every error of the construction, field by field in
\* declaration order, then the unknown fields (extra = "forbid")
ModelErrors(doc) ==
    Concat([i \in 1..Len(TopKeys) |->
                CASE doc.top[TopKeys[i]] = "absent" -> <<Err(<< <<TopKeys[i]>> >>, <<"Field required">>)>>
                  [] doc.top[TopKeys[i]] = "badtype" -> <<Err(<< <<TopKeys[i]>> >>, <<"Input should be a valid value">>)>>
                  [] OTHER -> FieldErrors(doc, TopKeys[i])])
    \o (IF doc.extra THEN <<Err(<< <<"unknown_field">> >>, <<"Extra inputs are not permitted">>)>> ELSE <<>>)

\* ModelErrorLines with the loop left after its first turn
ModelErrorLines_FirstOnly(errs) ==
    << <<"Data validation error in ">>
       \o Join(errs[1].loc, " -> ") \o <<": ">> \o errs[1].msg >>

\* what the handler of pydantic's ValidationError appends to errors
ModelErrorLines(errs) ==
    [i \in 1..Len(errs) |->
        <<"Data validation error in ">>
        \o Join(errs[i].loc, " -> ")
        \o <<": ">> \o errs[i].msg]

-----------------------------------------------------------------------------
(* Gate 3: business rules *)

GapMonths == 6
FewSkills == 10
ManySkills == 50
UnenhancedLimit == 5
NoMetricsLimit == 3
ShortSummary == 100
LongSummary == 1000

\* a < b on two "YYYY-MM" strings: both have the same width, so the
\* comparison of the strings is the comparison of (year, month)
StrLess(a, b) == a[1] < b[1] \/ (a[1] = b[1] /\ a[2] < b[2])

\* the "YYYY-MM" text of a date
DateText(d) == Str(d[1]) \o <<"-">> \o (IF d[2] < 10 THEN <<"0">> ELSE <<>>) \o Str(d[2])

\* sorted(experience, key=start_date, reverse=True): descending, and entries
\* with the same start_date keep their order
RECURSIVE InsertByStart(_, _)
InsertByStart(sorted, e) ==
    IF Len(sorted) = 0 THEN <<e>>
    ELSE IF StrLess(Head(sorted).start_date, e.start_date)
         THEN <<e>> \o sorted
         ELSE <<Head(sorted)>> \o InsertByStart(Tail(sorted), e)

RECURSIVE SortFrom(_, _)
SortFrom(sorted, rest) ==
    IF Len(rest) = 0 THEN sorted
    ELSE SortFrom(InsertByStart(sorted, Head(rest)), Tail(rest))

SortedExperience(experience) == SortFrom(<<>>, experience)

_calculate_month_diff(date1, date2) ==
    (date2[1] - date1[1]) * 12 + (date2[2] - date1[2])

GapWarning(exp, next_exp) ==
    <<"Potential employment gap between ", exp.company, " (ended ">>
    \o DateText(exp.end_date) \o <<") and ", next_exp.company, " (started ">>
    \o DateText(next_exp.start_date) \o <<")">>

\* the chronology check over the sorted entries
ChronologyWarnings(sorted_experience) ==
    Concat([i \in 1..(Len(sorted_experience) - 1) |->
        LET exp == sorted_experience[i]
            next_exp == sorted_experience[i + 1]
        IN  IF /\ exp.end_date # NoDate
               /\ StrLess(exp.end_date, next_exp.start_date)
               /\ _calculate_month_diff(exp.end_date, next_exp.start_date) > GapMonths
            THEN <<GapWarning(exp, next_exp)>>
            ELSE <<>>])

is_current(exp) == exp.end_date = NoDate

Count(s, P(_)) == Cardinality({i \in 1..Len(s) : P(s[i])})

NoCurrentWarning == <<"No current position found - consider adding current role">>
MultipleCurrentWarning == <<"Multiple current positions found - ensure this is intentional">>

\* CurrentPositionWarnings with "more than one" written as "at least one"
CurrentPositionWarnings_AtLeastOne(experience) ==
    LET current_positions == Count(experience, is_current)
    IN  IF current_positions = 0 THEN <<NoCurrentWarning>>
        ELSE IF current_positions >= 1 THEN <<MultipleCurrentWarning>>
        ELSE <<>>

CurrentPositionWarnings(experience) ==
    LET current_positions == Count(experience, is_current)
    IN  IF current_positions = 0 THEN <<NoCurrentWarning>>
        ELSE IF current_positions > 1 THEN <<MultipleCurrentWarning>>
        ELSE <<>>

TotalSkills(categories) == SumSeq([c \in 1..Len(categories) |-> Len(categories[c])])

FewSkillsWarning(total_skills) ==
    <<"Only ">> \o Str(total_skills)
    \o <<" skills listed - consider adding more for ATS optimization">>

ManySkillsWarning(total_skills) ==
    Str(total_skills)
    \o <<" skills listed - consider focusing on top skills for readability">>

SkillCountWarnings(categories) ==
    LET total_skills == TotalSkills(categories)
    IN  IF total_skills < FewSkills THEN <<FewSkillsWarning(total_skills)>>
        ELSE IF total_skills > ManySkills THEN <<ManySkillsWarning(total_skills)>>
        ELSE <<>>

\* the achievements of all the experience entries, in order
AllAchievements(experience) ==
    Concat([i \in 1..Len(experience) |-> experience[i].achievements])

NotEnhanced(a) == ~a.ai_enhanced
NoMetrics(a) == Len(a.metrics) = 0

EnhancementWarnings(experience) ==
    LET unenhanced == Count(AllAchievements(experience), NotEnhanced)
    IN  IF unenhanced > UnenhancedLimit
        THEN <<Str(unenhanced) \o <<" achievements could benefit from AI enhancement">>>>
        ELSE <<>>

MetricWarnings(experience) ==
    LET without_metrics == Count(AllAchievements(experience), NoMetrics)
    IN  IF without_metrics > NoMetricsLimit
        THEN <<Str(without_metrics) \o <<" achievements lack quantified metrics">>>>
        ELSE <<>>

NoEducationWarning == <<"No education information found">>
ShortSummaryWarning == <<"Professional summary is quite short - consider expanding">>
LongSummaryWarning == <<"Professional summary is very long - consider condensing">>

EducationWarnings(doc) ==
    IF doc.education_n = 0 THEN <<NoEducationWarning>> ELSE <<>>

\* the summary check with thresholds that take in the lengths 100 and 1000
SummaryWarnings_Inclusive(doc) ==
    IF doc.overview_len <= ShortSummary THEN <<ShortSummaryWarning>>
    ELSE IF doc.overview_len >= LongSummary THEN <<LongSummaryWarning>>
    ELSE <<>>

SummaryWarnings(doc) ==
    IF doc.overview_len < ShortSummary THEN <<ShortSummaryWarning>>
    ELSE IF doc.overview_len > LongSummary THEN <<LongSummaryWarning>>
    ELSE <<>>

\* _validate_business_rules reporting the chronology findings as errors
_validate_business_rules_strict(doc) ==
    [errors |-> ChronologyWarnings(SortedExperience(doc.experience)),
     warnings |-> CurrentPositionWarnings(doc.experience)
                  \o SkillCountWarnings(doc.categories)
                  \o EnhancementWarnings(doc.experience)
                  \o MetricWarnings(doc.experience)
                  \o EducationWarnings(doc)
                  \o SummaryWarnings(doc)]

\* (errors, warnings) of a typed document
_validate_business_rules(doc) ==
    [errors |-> <<>>,
     warnings |-> ChronologyWarnings(SortedExperience(doc.experience))
                  \o CurrentPositionWarnings(doc.experience)
                  \o SkillCountWarnings(doc.categories)
                  \o EnhancementWarnings(doc.experience)
                  \o MetricWarnings(doc.experience)
                  \o EducationWarnings(doc)
                  \o SummaryWarnings(doc)]

-----------------------------------------------------------------------------
(* The builders package: format names, builder classes and their construction *)

\* A format name is a sequence of one-character tokens.
Name(chars) == chars

\* the code points of the characters of the names of the model
Ord == (" " :> 32) @@ ("H" :> 72) @@ ("L" :> 76) @@ ("M" :> 77) @@ ("T" :> 84)
       @@ ("a" :> 97) @@ ("d" :> 100) @@ ("f" :> 102) @@ ("h" :> 104)
       @@ ("j" :> 106) @@ ("k" :> 107) @@ ("l" :> 108) @@ ("m" :> 109)
       @@ ("n" :> 110) @@ ("o" :> 111) @@ ("p" :> 112) @@ ("r" :> 114)
       @@ ("s" :> 115) @@ ("t" :> 116) @@ ("w" :> 119)

Whitespace == {" "}

\* str.lower() on one character
LowerChar(c) == CASE c = "H" -> "h" [] c = "L" -> "l" [] c = "M" -> "m"
                  [] c = "T" -> "t" [] OTHER -> c

\* str.lower()
Lower(name) == [i \in 1..Len(name) |-> LowerChar(name[i])]

\* str.lstrip()
RECURSIVE LStrip(_)
LStrip(name) ==
    IF name # <<>> /\ Head(name) \in Whitespace THEN LStrip(Tail(name)) ELSE name

\* str.rstrip()
RECURSIVE RStrip(_)
RStrip(name) ==
    IF name # <<>> /\ name[Len(name)] \in Whitespace
    THEN RStrip(SubSeq(name, 1, Len(name) - 1)) ELSE name

\* str.strip()
Strip(name) == RStrip(LStrip(name))

\* format_type.lower().strip()
Normalize(format_type) == Strip(Lower(format_type))

\* a < b on str: by code point, a proper prefix first
RECURSIVE NameLess(_, _)
NameLess(a, b) ==
    IF b = <<>> THEN FALSE
    ELSE IF a = <<>> THEN TRUE
    ELSE IF Head(a) = Head(b) THEN NameLess(Tail(a), Tail(b))
    ELSE Ord[Head(a)] < Ord[Head(b)]

\* sorted(keys)
RECURSIVE SortedNames(_)
SortedNames(keys) ==
    IF keys = {} THEN <<>>
    ELSE LET least == CHOOSE k \in keys : \A other \in keys \ {k} : NameLess(k, other)
         IN  <<least>> \o SortedNames(keys \ {least})

html == Name(<<"h", "t", "m", "l">>)
json == Name(<<"j", "s", "o", "n">>)
markdown == Name(<<"m", "a", "r", "k", "d", "o", "w", "n">>)
pdf == Name(<<"p", "d", "f">>)

\* The builder classes of the model, by their constructor:
\*   "super3"  a core builder: __init__(resume_data, output_dir, theme) passes
\*             its three arguments on to BaseBuilder.__init__
\*   "base"    a subclass that inherits BaseBuilder.__init__ (MockBuilder)
\*   "super2"  a subclass whose __init__(resume_data, output_dir, theme) calls
\*             BaseBuilder.__init__ with a configuration and the theme
\*   "own"     a subclass whose __init__(resume_data, output_dir, theme) keeps
\*             its arguments and does not call BaseBuilder.__init__
\*   "raises"  a subclass whose __init__ raises RuntimeError (FailingBuilder)
\*   "none"    a class that is not a subclass of BaseBuilder
BuilderClasses ==
    [HtmlBuilder |-> "super3", JsonBuilder |-> "super3",
     MarkdownBuilder |-> "super3", PdfBuilder |-> "super3",
     MockBuilder |-> "base", ConfiguredBuilder |-> "super2",
     PlainBuilder |-> "own", FailingBuilder |-> "raises", NotABuilder |-> "none"]

CoreClasses == {"HtmlBuilder", "JsonBuilder", "MarkdownBuilder", "PdfBuilder"}

\* issubclass(builder_class, BaseBuilder)
IsBuilderClass(builder_class) == BuilderClasses[builder_class] # "none"

\* get_format_name() of a class
FormatName == [HtmlBuilder |-> html, JsonBuilder |-> json,
               MarkdownBuilder |-> markdown, PdfBuilder |-> pdf,
               MockBuilder |-> html, ConfiguredBuilder |-> html,
               PlainBuilder |-> html, FailingBuilder |-> html, NotABuilder |-> html]

\* what is found at config.templates_dir: nothing, a directory without the
\* subtree of the format, or a directory with it
TemplateStates == {"missing", "no_format_root", "ok"}

Themes == {"modern", "minimal"}

KnownFormats == {"html", "pdf", "json", "markdown"}

\* the parameters BaseBuilder.__init__ accepts after self
BaseBuilderParameters == <<"config", "theme">>

\* the arguments every core builder passes to super().__init__
SuperInitArguments == <<"resume_data", "output_dir", "theme">>

\* the outcome of constructing a core builder
ConstructBuilder(fmt) ==
    IF Len(SuperInitArguments) <= Len(BaseBuilderParameters) THEN "ok" ELSE "TypeError"

NoBuilder == [none |-> TRUE]

\* a builder instance by the attributes its constructor set
Instance(builder_class, document, output_dir, config, theme) ==
    [class |-> builder_class, resume_data |-> document,
     output_dir |-> output_dir, config |-> config, theme |-> theme]

\* the outcome of a construction: the instance, or the exception raised
Built(instance) == [raised |-> "none", instance |-> instance]

Raised(exception) == [raised |-> exception, instance |-> NoBuilder]

\* BaseBuilder.__init__(self, config, theme) called with `arguments` after self:
\* it sets config, theme and template_dir, and no other attribute
BaseBuilderInit(builder_class, arguments, theme, templates) ==
    IF Len(arguments) > Len(BaseBuilderParameters) THEN Raised("TypeError")
    ELSE IF templates = "missing" THEN Raised("TemplateError")
    ELSE Built(Instance(builder_class, "unset", "unset", arguments[1], theme))

\* builder_class(resume_data, output_dir, theme)
Construct(builder_class, theme, templates) ==
    CASE BuilderClasses[builder_class] = "super3" ->
            BaseBuilderInit(builder_class, SuperInitArguments, theme, templates)
      [] BuilderClasses[builder_class] = "base" ->
            BaseBuilderInit(builder_class, <<"resume_data", "output_dir", "theme">>, theme, templates)
      [] BuilderClasses[builder_class] = "super2" ->
            BaseBuilderInit(builder_class, <<"config", "theme">>, theme, templates)
      [] BuilderClasses[builder_class] = "own" ->
            Built(Instance(builder_class, "resume_data", "output_dir", "unset", theme))
      [] BuilderClasses[builder_class] = "raises" -> Raised("RuntimeError")
      [] OTHER -> Raised("TypeError")

-----------------------------------------------------------------------------
(* The builders package: the registry *)

EmptyRegistry == [k \in {} |-> "NotABuilder"]

\* cls._builders[format_type] = builder_class
WithBuilder(registry, key, builder_class) ==
    [k \in DOMAIN registry \cup {key} |-> IF k = key THEN builder_class ELSE registry[k]]

\* cls._builders.pop(format_type)
WithoutBuilder(registry, key) == [k \in DOMAIN registry \ {key} |-> registry[k]]

\* the registry once the package is imported
_register_core_builders ==
    WithBuilder(WithBuilder(WithBuilder(WithBuilder(EmptyRegistry,
        Normalize(html), "HtmlBuilder"),
        Normalize(json), "JsonBuilder"),
        Normalize(markdown), "MarkdownBuilder"),
        Normalize(pdf), "PdfBuilder")

\* the registrations made by the import, by the names as given
CoreRegistrations ==
    {<<html, "HtmlBuilder">>, <<json, "JsonBuilder">>,
     <<markdown, "MarkdownBuilder">>, <<pdf, "PdfBuilder">>}

\* the names the calls are made with
RawNames == {html, <<"H", "T", "M", "L">>, <<" ", "h", "t", "m", "l", " ">>,
             json, pdf, <<>>, <<" ", " ">>}

\* the classes the calls are made with
GivenClasses == {"HtmlBuilder", "ConfiguredBuilder", "PlainBuilder", "FailingBuilder", "NotABuilder"}

Nothing == [none |-> TRUE]

\* a call and its outcome
Call(op, format_type, builder_class, theme, templates) ==
    [op |-> op, format_type |-> format_type, builder_class |-> builder_class,
     theme |-> theme, templates |-> templates,
     returned |-> Nothing, raised |-> "none", message |-> <<>>,
     error_format |-> Nothing, cause |-> "none", events |-> <<>>]

NoCall == Call("none", <<>>, "none", "none", "none")

Returns(c, value, events) == [c EXCEPT !.returned = value, !.events = events]

Raises(c, exception, message) == [c EXCEPT !.raised = exception, !.message = message]

Event(level, message) == [level |-> level, message |-> message]

-----------------------------------------------------------------------------
(* The inputs of the model *)

\* the ways a raw document is made to depart from a valid one
Defects == {"no_version", "no_last_updated", "no_personal_info",
            "no_professional_summary", "no_experience", "no_skills", "no_education",
            "bad_personal_info", "bad_experience", "extra_field",
            "short_name", "long_name", "short_overview", "long_overview",
            "empty_education", "empty_experience", "one_achievement",
            "nine_achievements", "bad_metric_value", "bad_start_date", "empty_category"}

AbsentDefect == [version |-> "no_version", last_updated |-> "no_last_updated",
                 personal_info |-> "no_personal_info",
                 professional_summary |-> "no_professional_summary",
                 experience |-> "no_experience", skills |-> "no_skills",
                 education |-> "no_education"]

BadTypeDefect == [version |-> "-", last_updated |-> "-",
                  personal_info |-> "bad_personal_info", professional_summary |-> "-",
                  experience |-> "bad_experience", skills |-> "-", education |-> "-"]

\* defects that cannot be applied together
Exclusive == {{"no_personal_info", "bad_personal_info"}, {"no_experience", "bad_experience"},
              {"short_name", "long_name"}, {"short_overview", "long_overview"},
              {"one_achievement", "nine_achievements"},
              {"one_achievement", "bad_metric_value"},
              {"nine_achievements", "bad_metric_value"}}

DefectSets == {S \in SUBSET Defects :
                 /\ Cardinality(S) <= MaxDefects
                 /\ \A X \in Exclusive : ~(X \subseteq S)}

PlainAchievements == Achievements(2, FALSE, <<>>)

\* the experience lists of the documents that receive defects
BaseExperience ==
    { <<Experience("A", <<2022, 1>>, NoDate, PlainAchievements)>>,
      <<Experience("A", <<2022, 1>>, NoDate, PlainAchievements),
        Experience("B", <<2019, 1>>, <<2020, 1>>, PlainAchievements)>> }

BaseCategories == { <<SkillList(1)>>, <<SkillList(10)>> }

DefectiveExperience(experience, S) ==
    IF "empty_experience" \in S THEN <<>>
    ELSE LET n == IF "one_achievement" \in S THEN 1
                  ELSE IF "nine_achievements" \in S THEN 9 ELSE 2
             first == IF S \cap {"one_achievement", "nine_achievements", "bad_metric_value"} = {}
                      THEN experience[1].achievements
                      ELSE [j \in 1..n |->
                               [ai_enhanced |-> FALSE,
                                metrics |-> IF j = 1 /\ "bad_metric_value" \in S
                                            THEN <<"list">> ELSE <<>>]]
         IN  <<[experience[1] EXCEPT
                   !.start_date = IF "bad_start_date" \in S THEN <<2022>> ELSE @,
                   !.achievements = first]>>
             \o Tail(experience)

WithDefects(experience, categories, S) ==
    Document([k \in DOMAIN AllPresent |->
                 IF AbsentDefect[k] \in S THEN "absent"
                 ELSE IF BadTypeDefect[k] \in S THEN "badtype" ELSE "ok"],
             "extra_field" \in S,
             IF "short_name" \in S THEN 1 ELSE IF "long_name" \in S THEN 101 ELSE 9,
             IF "short_overview" \in S THEN 99
             ELSE IF "long_overview" \in S THEN 1001 ELSE 180,
             DefectiveExperience(experience, S),
             IF "empty_category" \in S THEN categories \o << <<>> >> ELSE categories,
             IF "empty_education" \in S THEN 0 ELSE 1)

\* valid documents whose overview has exactly the least or the greatest
\* length the typed document accepts
BoundaryDocuments ==
    {[WithDefects(e, c, {}) EXCEPT !.overview_len = n] :
        e \in BaseExperience, c \in BaseCategories, n \in {OverviewMin, OverviewMax}}

RawDocuments ==
    {WithDefects(e, c, S) : e \in BaseExperience, c \in BaseCategories, S \in DefectSets}
    \cup BoundaryDocuments
    \cup {NotAMapping}

\* the dates of the documents given to the business rules
LintDates == {<<2020, 1>>, <<2020, 7>>, <<2020, 8>>, <<2021, 3>>}

LintAchievements == {Achievements(2, TRUE, <<"int">>), Achievements(3, FALSE, <<>>)}

\* every list of 1..MaxExperience entries, the i-th of company Companies[i]
RECURSIVE ExperienceLists(_)
ExperienceLists(n) ==
    IF n = 0 THEN {<<>>}
    ELSE {Append(l, Experience(Companies[n], s, e, a)) :
            l \in ExperienceLists(n - 1), s \in LintDates,
            e \in LintDates \cup {NoDate}, a \in LintAchievements}

LintExperience == UNION {ExperienceLists(n) : n \in 1..MaxExperience}

\* category sizes around the two thresholds of the skill count
LintCategories ==
    { <<>>, <<SkillList(3)>>, <<SkillList(9)>>, <<SkillList(9), SkillList(1)>>,
      <<SkillList(4), SkillList(3), SkillList(4)>>, <<SkillList(25), SkillList(25)>>,
      <<SkillList(50), SkillList(1)>>, <<SkillList(51)>>, <<SkillList(100)>> }

ValidDocument(experience, categories) == WithDefects(experience, categories, {})

LintDocuments ==
    {ValidDocument(e, <<SkillList(10)>>) : e \in LintExperience}
    \cup {ValidDocument(e, c) : e \in BaseExperience, c \in LintCategories}

ResumeStates == {"missing", "stat_error", "yaml_error", "read_error", "empty", "ok"}
SchemaStates == {"missing", "unreadable", "bad_json", "invalid_schema", "ok"}

Formats == {"html", "pdf", "json", "markdown", "docx"}

FormatLists == UNION {[1..n -> Formats] : n \in 1..MaxFormats}

NoResult == [none |-> TRUE]

\* the build command before it is run, given the state of the output directory
Command(out) ==
    [out |-> out, formats |-> <<>>, next |-> 1, built_files |-> <<>>,
     constructed |-> <<>>, written |-> {}, exit |-> -1]

IdleCommand == Command("missing")

Start(e) == CASE e = "build" -> "cli" [] e = "file" -> "file" [] OTHER -> "data"

InitWith(entries, resumes, schemas, documents) ==
    /\ entry \in entries
    /\ resume \in (IF entry = "data" THEN {"ok"} ELSE resumes)
    /\ schema \in schemas
    /\ data \in (IF resume = "ok" THEN documents ELSE {NoData})
    /\ pc = Start(entry)
    /\ errors = <<>>
    /\ warnings = <<>>
    /\ resume_data = None
    /\ gates = <<>>
    /\ result = NoResult
    /\ cli \in (IF entry = "build" THEN {Command("missing"), Command("stale")}
                ELSE {IdleCommand})
    /\ _builders = _register_core_builders
    /\ call = NoCall
    /\ registered = CoreRegistrations
    /\ calls = 0
    /\ builder = NoBuilder
    /\ disk = {}
    /\ mkdir = <<>>

Init == InitWith({"data", "file", "build"}, ResumeStates, SchemaStates, RawDocuments)

InitLint == InitWith({"data"}, {"ok"}, {"ok"}, LintDocuments)

\* nothing is run but the methods of builders: the pipeline and the command
\* are idle and the registry is as the import leaves it
InitIdle ==
    /\ entry = "builders"
    /\ resume = "ok"
    /\ schema = "ok"
    /\ data = NoData
    /\ pc = "builders"
    /\ errors = <<>>
    /\ warnings = <<>>
    /\ resume_data = None
    /\ gates = <<>>
    /\ result = NoResult
    /\ cli = IdleCommand
    /\ _builders = _register_core_builders
    /\ registered = CoreRegistrations
    /\ call = NoCall
    /\ calls = 0

\* the builders package once imported, or with its registry cleared (as
\* unregistering every format leaves it); the pipeline is not run
InitRegistry ==
    /\ entry = "builders"
    /\ resume = "ok"
    /\ schema = "ok"
    /\ data = NoData
    /\ pc = "builders"
    /\ errors = <<>>
    /\ warnings = <<>>
    /\ resume_data = None
    /\ gates = <<>>
    /\ result = NoResult
    /\ cli = IdleCommand
    /\ \/ _builders = _register_core_builders /\ registered = CoreRegistrations
       \/ _builders = EmptyRegistry /\ registered = {}
    /\ call = NoCall
    /\ calls = 0
    /\ builder = NoBuilder
    /\ disk = {}
    /\ mkdir = <<>>

-----------------------------------------------------------------------------
(* validate_resume_file and validate_resume_data *)

ValidationResult(is_valid, errs, warns, doc) ==
    [is_valid |-> is_valid, errors |-> errs, warnings |-> warns, data |-> doc]

\* a return of either function: to the caller, which is the build command
\* when that is what was run
Return(res) ==
    /\ result' = res
    /\ pc' = IF entry = "build" THEN "cli_check" ELSE "done"

\* an exception leaves validate_resume_file through its last handler
FileUnexpected(e) ==
    /\ Return(ValidationResult(FALSE, << <<"Unexpected error validating file: ", e>> >>,
                               <<>>, None))
    /\ UNCHANGED errors

\* Unexpected without the last handler of validate_resume_data: the exception
\* goes to the caller
Unexpected_Propagates(e) ==
    IF entry = "data"
    THEN pc' = "raised" /\ UNCHANGED <<errors, result>>
    ELSE FileUnexpected(e)

\* an exception leaves the body of validate_resume_data through its last handler
Unexpected(e) ==
    /\ errors' = Append(errors, <<"Unexpected validation error: ", e>>)
    /\ Return(ValidationResult(FALSE, errors', warnings, None))

\* Fail without the append to errors
Fail_Silent(lines) ==
    /\ errors' = errors
    /\ Return(ValidationResult(FALSE, errors', warnings, None))

\* return ValidationResult(False, errors, warnings) after one more error
Fail(lines) ==
    /\ errors' = errors \o lines
    /\ Return(ValidationResult(FALSE, errors', warnings, None))

\* validate_resume_file up to its call of validate_resume_data
ValidateResumeFile ==
    /\ pc = "file"
    /\ CASE resume = "stat_error" -> FileUnexpected("PermissionError")
         [] resume = "missing" ->
                /\ Return(ValidationResult(FALSE, << <<"Resume file not found: ", "resume_path">> >>, <<>>, None))
                /\ UNCHANGED errors
         [] resume = "yaml_error" ->
                /\ Return(ValidationResult(FALSE, << <<"YAML parsing error: ", "YAMLError">> >>, <<>>, None))
                /\ UNCHANGED errors
         [] resume = "read_error" ->
                /\ Return(ValidationResult(FALSE, << <<"Error reading resume file: ", "OSError">> >>, <<>>, None))
                /\ UNCHANGED errors
         [] resume = "empty" ->
                /\ Return(ValidationResult(FALSE, << <<"Resume file is empty">> >>, <<>>, None))
                /\ UNCHANGED errors
         [] OTHER ->
                /\ pc' = "data"
                /\ UNCHANGED <<result, errors>>
    /\ UNCHANGED builders
    /\ UNCHANGED site
    /\ UNCHANGED <<entry, resume, schema, data, warnings, resume_data, gates, cli>>

\* validate_resume_data: the schema file is looked for and loaded
LoadSchema ==
    /\ pc = "data"
    /\ CASE schema = "missing" -> Fail(<< <<"Schema file not found: ", "schema_path">> >>)
         [] schema = "unreadable" -> Unexpected("PermissionError")
         [] schema = "bad_json" -> Unexpected("JSONDecodeError")
         [] OTHER ->
                /\ pc' = "gate1"
                /\ UNCHANGED <<result, errors>>
    /\ UNCHANGED builders
    /\ UNCHANGED site
    /\ UNCHANGED <<entry, resume, schema, data, warnings, resume_data, gates, cli>>

\* Gate1 without the return of the ValidationError handler
Gate1_FallsThrough ==
    /\ pc = "gate1"
    /\ gates' = Append(gates, 1)
    /\ IF schema = "invalid_schema"
       THEN Fail(<< <<"Invalid schema: ", "SchemaError">> >>)
       ELSE LET violations == SchemaErrors(data)
            IN  /\ errors' = IF Len(violations) > 0
                             THEN errors \o SchemaErrorLines(BestMatch(violations))
                             ELSE errors
                /\ pc' = "gate2"
                /\ UNCHANGED result
    /\ UNCHANGED builders
    /\ UNCHANGED site
    /\ UNCHANGED <<entry, resume, schema, data, warnings, resume_data, cli>>

\* validate_resume_data: jsonschema.validate and its two handlers
Gate1 ==
    /\ pc = "gate1"
    /\ gates' = Append(gates, 1)
    /\ IF schema = "invalid_schema"
       THEN Fail(<< <<"Invalid schema: ", "SchemaError">> >>)
       ELSE LET violations == SchemaErrors(data)
            IN  IF Len(violations) > 0
                THEN Fail(SchemaErrorLines(BestMatch(violations)))
                ELSE /\ pc' = "gate2"
                     /\ UNCHANGED <<result, errors>>
    /\ UNCHANGED builders
    /\ UNCHANGED site
    /\ UNCHANGED <<entry, resume, schema, data, warnings, resume_data, cli>>

\* validate_resume_data: ResumeData(**data) and its handler
Gate2 ==
    /\ pc = "gate2"
    /\ gates' = Append(gates, 2)
    /\ IF data.kind # "mapping"
       THEN Unexpected("TypeError") /\ UNCHANGED resume_data
       ELSE LET field_errors == ModelErrors(data)
            IN  IF Len(field_errors) > 0
                THEN Fail(ModelErrorLines(field_errors)) /\ UNCHANGED resume_data
                ELSE /\ resume_data' = data
                     /\ pc' = "gate3"
                     /\ UNCHANGED <<result, errors>>
    /\ UNCHANGED builders
    /\ UNCHANGED site
    /\ UNCHANGED <<entry, resume, schema, data, warnings, cli>>

\* validate_resume_data: the business rules and the final return
Gate3 ==
    /\ pc = "gate3"
    /\ gates' = Append(gates, 3)
    /\ LET rules == _validate_business_rules(resume_data)
       IN  /\ errors' = errors \o rules.errors
           /\ warnings' = warnings \o rules.warnings
           /\ Return(ValidationResult(Len(errors') = 0, errors', warnings', resume_data))
    /\ UNCHANGED builders
    /\ UNCHANGED site
    /\ UNCHANGED <<entry, resume, schema, data, resume_data, cli>>

-----------------------------------------------------------------------------
(* The build command *)

\* the command up to its call of validate_resume_file: the output directory is
\* cleaned when asked to, and the validators are imported
BuildBegin ==
    /\ pc = "cli"
    /\ \E clean \in BOOLEAN, import_ok \in BOOLEAN :
          /\ cli' = [cli EXCEPT !.out = IF clean /\ cli.out # "missing" THEN "empty" ELSE @,
                                !.exit = IF import_ok THEN @ ELSE 1]
          /\ pc' = IF import_ok THEN "file" ELSE "exit"
    /\ UNCHANGED builders
    /\ UNCHANGED site
    /\ UNCHANGED <<entry, resume, schema, data, errors, warnings, resume_data, gates, result>>

\* BuildCheck without the test of is_valid
BuildCheck_IgnoresResult ==
    /\ pc = "cli_check"
    /\ \E fs \in FormatLists : cli' = [cli EXCEPT !.formats = fs]
    /\ pc' = "cli_loop"
    /\ UNCHANGED builders
    /\ UNCHANGED site
    /\ UNCHANGED <<entry, resume, schema, data, errors, warnings, resume_data, gates, result>>

\* the command looks at the result: an invalid one ends it
BuildCheck ==
    /\ pc = "cli_check"
    /\ IF ~result.is_valid
       THEN /\ cli' = [cli EXCEPT !.exit = 1]
            /\ pc' = "exit"
       ELSE /\ \E fs \in FormatLists : cli' = [cli EXCEPT !.formats = fs]
            /\ pc' = "cli_loop"
    /\ UNCHANGED builders
    /\ UNCHANGED site
    /\ UNCHANGED <<entry, resume, schema, data, errors, warnings, resume_data, gates, result>>

\* BuildFormat without its handler: the failure of a format ends the command
BuildFormat_StopsAtFailure ==
    /\ pc = "cli_loop"
    /\ cli.next <= Len(cli.formats)
    /\ LET fmt == cli.formats[cli.next]
       IN  IF fmt \notin KnownFormats
           THEN cli' = [cli EXCEPT !.next = @ + 1] /\ pc' = pc
           ELSE /\ cli' = [cli EXCEPT !.next = @ + 1,
                                      !.constructed = Append(@, fmt),
                                      !.exit = 1]
                /\ pc' = "exit"
    /\ UNCHANGED builders
    /\ UNCHANGED site
    /\ UNCHANGED <<entry, resume, schema, data, errors, warnings, resume_data, gates, result>>

\* one turn of the loop over the requested formats
BuildFormat ==
    /\ pc = "cli_loop"
    /\ cli.next <= Len(cli.formats)
    /\ LET fmt == cli.formats[cli.next]
       IN  IF fmt \notin KnownFormats
           THEN cli' = [cli EXCEPT !.next = @ + 1]
           ELSE IF ConstructBuilder(fmt) = "ok"
           THEN cli' = [cli EXCEPT !.next = @ + 1,
                                   !.constructed = Append(@, fmt),
                                   !.written = @ \cup {fmt},
                                   !.built_files = Append(@, fmt)]
           ELSE cli' = [cli EXCEPT !.next = @ + 1,
                                   !.constructed = Append(@, fmt)]
    /\ UNCHANGED builders
    /\ UNCHANGED site
    /\ UNCHANGED <<entry, resume, schema, data, pc, errors, warnings, resume_data, gates, result>>

\* after the loop: success when a file was built
BuildFinish ==
    /\ pc = "cli_loop"
    /\ cli.next > Len(cli.formats)
    /\ cli' = [cli EXCEPT !.exit = IF Len(cli.built_files) > 0 THEN 0 ELSE 1]
    /\ pc' = "exit"
    /\ UNCHANGED builders
    /\ UNCHANGED site
    /\ UNCHANGED <<entry, resume, schema, data, errors, warnings, resume_data, gates, result>>

-----------------------------------------------------------------------------
(* The builders package: BuilderFactory *)

\* the text of a name between quotes
Quoted(name) == <<"'">> \o name \o <<"'">>

\* create_builder that looks the name up as given
create_builder_exact(registry, format_type, theme, templates) ==
    LET c == Call("create_builder", format_type, "none", theme, templates)
    IN  IF format_type = <<>>
        THEN Raises(c, "ValueError", <<"Format type cannot be empty">>)
        ELSE IF format_type \notin DOMAIN registry
        THEN Raises(c, "ValueError", <<"Unknown format ">>)
        ELSE Returns([c EXCEPT !.builder_class = registry[format_type]],
                     Construct(registry[format_type], theme, templates).instance, <<>>)

\* create_builder that lets the exception of the constructor through
create_builder_unwrapped(registry, format_type, theme, templates) ==
    LET c == Call("create_builder", format_type, "none", theme, templates)
        key == Normalize(format_type)
    IN  IF format_type = <<>>
        THEN Raises(c, "ValueError", <<"Format type cannot be empty">>)
        ELSE IF key \notin DOMAIN registry
        THEN Raises(c, "ValueError", <<"Unknown format ">>)
        ELSE LET built == Construct(registry[key], theme, templates)
                 selected == [c EXCEPT !.builder_class = registry[key]]
             IN  IF built.raised = "none"
                 THEN Returns(selected, built.instance, <<>>)
                 ELSE Raises(selected, built.raised, <<built.raised>>)

\* create_builder that lists the registered names in descending order
create_builder_unsorted(registry, format_type, theme, templates) ==
    LET c == Call("create_builder", format_type, "none", theme, templates)
        key == Normalize(format_type)
    IN  IF format_type = <<>>
        THEN Raises(c, "ValueError", <<"Format type cannot be empty">>)
        ELSE IF key \notin DOMAIN registry
        THEN Raises(c, "ValueError",
                    <<"Unknown format ">> \o Quoted(key) \o <<". Available formats: ">>
                    \o (IF DOMAIN registry = {} THEN <<"none registered">>
                        ELSE Join([i \in 1..Cardinality(DOMAIN registry) |->
                                     SortedNames(DOMAIN registry)[Cardinality(DOMAIN registry) + 1 - i]],
                                  ", ")))
        ELSE Returns([c EXCEPT !.builder_class = registry[key]],
                     Construct(registry[key], theme, templates).instance, <<>>)

\* BuilderFactory.create_builder(format_type, resume_data, output_dir, theme),
\* with what is found at the templates directory
create_builder(registry, format_type, theme, templates) ==
    LET c == Call("create_builder", format_type, "none", theme, templates)
        key == Normalize(format_type)
    IN  IF format_type = <<>>
        THEN Raises(c, "ValueError", <<"Format type cannot be empty">>)
        ELSE IF key \notin DOMAIN registry
        THEN LET available == Join(SortedNames(DOMAIN registry), ", ")
             IN  Raises(c, "ValueError",
                        <<"Unknown format ">> \o Quoted(key) \o <<". Available formats: ">>
                        \o (IF available = <<>> THEN <<"none registered">> ELSE available))
        ELSE LET builder_class == registry[key]
                 built == Construct(builder_class, theme, templates)
                 selected == [c EXCEPT !.builder_class = builder_class]
             IN  IF built.raised = "none"
                 THEN Returns(selected, built.instance, <<>>)
                 ELSE [Raises(selected, "BuilderError",
                              <<"Failed to create ">> \o key \o <<" builder: ", built.raised>>)
                          EXCEPT !.error_format = key, !.cause = built.raised]

\* BuilderFactory.get_available_formats()
get_available_formats(registry) == SortedNames(DOMAIN registry)

\* BuilderFactory.is_format_supported(format_type)
is_format_supported(registry, format_type) == Normalize(format_type) \in DOMAIN registry

\* register_builder without its two tests of the arguments
register_builder_unchecked(registry, format_type, builder_class) ==
    [registry |-> WithBuilder(registry, Normalize(format_type), builder_class),
     call |-> Call("register_builder", format_type, builder_class, "none", "none")]

\* register_builder that keeps the first registration of a name
register_builder_first_wins(registry, format_type, builder_class) ==
    [registry |-> IF Normalize(format_type) \in DOMAIN registry THEN registry
                  ELSE WithBuilder(registry, Normalize(format_type), builder_class),
     call |-> Call("register_builder", format_type, builder_class, "none", "none")]

\* register_builder that stores the name as given
register_builder_as_given(registry, format_type, builder_class) ==
    [registry |-> WithBuilder(registry, format_type, builder_class),
     call |-> Call("register_builder", format_type, builder_class, "none", "none")]

\* BuilderFactory.register_builder(format_type, builder_class): the registry
\* after the call, and the call with its outcome
register_builder(registry, format_type, builder_class) ==
    LET c == Call("register_builder", format_type, builder_class, "none", "none")
        key == Normalize(format_type)
    IN  IF format_type = <<>> \/ Strip(format_type) = <<>>
        THEN [registry |-> registry,
              call |-> Raises(c, "ValueError", <<"Format type cannot be empty">>)]
        ELSE IF ~IsBuilderClass(builder_class)
        THEN [registry |-> registry,
              call |-> Raises(c, "ValueError",
                              <<"Builder class must inherit from BaseBuilder, got ", builder_class>>)]
        ELSE [registry |-> WithBuilder(registry, key, builder_class),
              call |-> Returns(c, Nothing,
                  (IF key \in DOMAIN registry
                   THEN <<Event("warning",
                                <<"Overriding existing builder", " for format ">> \o Quoted(key)
                                \o <<": ", registry[key], " -> ", builder_class>>)>>
                   ELSE <<>>)
                  \o <<Event("info", <<"Registered builder for format ">> \o Quoted(key)
                                     \o <<": ", builder_class>>)>>)]

\* unregister_builder that answers True whatever it found
unregister_builder_always_true(registry, format_type) ==
    [registry |-> WithoutBuilder(registry, Normalize(format_type)),
     call |-> Returns(Call("unregister_builder", format_type, "none", "none", "none"),
                      TRUE, <<>>)]

\* BuilderFactory.unregister_builder(format_type)
unregister_builder(registry, format_type) ==
    LET c == Call("unregister_builder", format_type, "none", "none", "none")
        key == Normalize(format_type)
    IN  IF key \in DOMAIN registry
        THEN [registry |-> WithoutBuilder(registry, key),
              call |-> Returns([c EXCEPT !.builder_class = registry[key]], TRUE,
                               <<Event("info", <<"Unregistered builder for format ">>
                                               \o Quoted(key) \o <<": ", registry[key]>>)>>)]
        ELSE [registry |-> registry, call |-> Returns(c, FALSE, <<>>)]

\* the latest registration of each format, by the name as it was given
Recorded(records, format_type, builder_class) ==
    {r \in records : Normalize(r[1]) # Normalize(format_type)}
    \cup {<<format_type, builder_class>>}

Forgotten(records, format_type) ==
    {r \in records : Normalize(r[1]) # Normalize(format_type)}

RegisterBuilder ==
    /\ calls < MaxCalls
    /\ \E format_type \in RawNames, builder_class \in GivenClasses :
          LET done == register_builder(_builders, format_type, builder_class)
          IN  /\ _builders' = done.registry
              /\ call' = done.call
              /\ registered' = IF done.call.raised = "none"
                               THEN Recorded(registered, format_type, builder_class)
                               ELSE registered
    /\ calls' = calls + 1
    /\ UNCHANGED pipeline
    /\ UNCHANGED site

UnregisterBuilder ==
    /\ calls < MaxCalls
    /\ \E format_type \in RawNames :
          LET done == unregister_builder(_builders, format_type)
          IN  /\ _builders' = done.registry
              /\ call' = done.call
              /\ registered' = Forgotten(registered, format_type)
    /\ calls' = calls + 1
    /\ UNCHANGED pipeline
    /\ UNCHANGED site

CreateBuilder ==
    /\ calls < MaxCalls
    /\ \E format_type \in RawNames, theme \in Themes, templates \in TemplateStates :
          call' = create_builder(_builders, format_type, theme, templates)
    /\ calls' = calls + 1
    /\ UNCHANGED <<_builders, registered>>
    /\ UNCHANGED pipeline
    /\ UNCHANGED site

IsFormatSupported ==
    /\ calls < MaxCalls
    /\ \E format_type \in RawNames :
          call' = Returns(Call("is_format_supported", format_type, "none", "none", "none"),
                          is_format_supported(_builders, format_type), <<>>)
    /\ calls' = calls + 1
    /\ UNCHANGED <<_builders, registered>>
    /\ UNCHANGED pipeline
    /\ UNCHANGED site

GetAvailableFormats ==
    /\ calls < MaxCalls
    /\ call' = Returns(Call("get_available_formats", <<>>, "none", "none", "none"),
                       get_available_formats(_builders), <<>>)
    /\ calls' = calls + 1
    /\ UNCHANGED <<_builders, registered>>
    /\ UNCHANGED pipeline
    /\ UNCHANGED site

\* a builder class called directly, as the build command does
ConstructDirectly ==
    /\ calls < MaxCalls
    /\ \E builder_class \in DOMAIN BuilderClasses \ {"NotABuilder"},
          theme \in Themes, templates \in TemplateStates :
          LET built == Construct(builder_class, theme, templates)
              c == Call("construct", FormatName[builder_class], builder_class, theme, templates)
          IN  call' = IF built.raised = "none" THEN Returns(c, built.instance, <<>>)
                      ELSE [Raises(c, built.raised, <<built.raised>>)
                               EXCEPT !.cause = "none"]
    /\ calls' = calls + 1
    /\ UNCHANGED <<_builders, registered>>
    /\ UNCHANGED pipeline
    /\ UNCHANGED site

-----------------------------------------------------------------------------
(* The builders: build() *)

\* a builder object: its class and theme, whether its resume_data attribute
\* and its get_output_path method are defined, and what build() finds: the
\* theme template, the outcome of rendering, the outcome of writing the file
BuilderObject(builder_class, theme, has_data, has_output_path, template, render, write) ==
    [class |-> builder_class, theme |-> theme, has_data |-> has_data,
     has_output_path |-> has_output_path, template |-> template,
     render |-> render, write |-> write]

ThemeTemplateStates == {"not_found", "invalid", "ok"}

BuilderObjects ==
    {BuilderObject(c, t, d, o, tpl, r, w) :
        c \in CoreClasses, t \in Themes, d \in BOOLEAN, o \in BOOLEAN,
        tpl \in ThemeTemplateStates, r \in {"ok", "fails"}, w \in {"ok", "fails"}}

\* the parameters of BaseBuilder.prepare_context after self
PrepareContextParameters == <<"resume_data">>

\* the arguments build() calls self.prepare_context with
PrepareContextArguments == <<>>

\* the exceptions of jinja2 that derive from jinja2.TemplateError
JinjaTemplateErrors == {"TemplateNotFound", "TemplateSyntaxError", "UndefinedError"}

\* the try body of HtmlBuilder.build and MarkdownBuilder.build: the first
\* exception it raises, or "none"
TemplateBody(b) ==
    IF b.template = "not_found" THEN "TemplateNotFound"
    ELSE IF b.template = "invalid" THEN "TemplateSyntaxError"
    ELSE IF Len(PrepareContextArguments) < Len(PrepareContextParameters) THEN "TypeError"
    ELSE IF b.render = "fails" THEN "UndefinedError"
    ELSE IF ~b.has_output_path THEN "AttributeError"
    ELSE IF b.write = "fails" THEN "OSError"
    ELSE "none"

\* the try body of PdfBuilder.build
PdfBody(b) ==
    IF ~b.has_output_path THEN "AttributeError"
    ELSE IF ~b.has_data THEN "AttributeError"
    ELSE IF b.render = "fails" THEN "LayoutError"
    ELSE IF b.write = "fails" THEN "OSError"
    ELSE "none"

\* the try body of JsonBuilder.build
JsonBody(b) ==
    IF ~b.has_data THEN "AttributeError"
    ELSE IF ~b.has_output_path THEN "AttributeError"
    ELSE IF b.write = "fails" THEN "OSError"
    ELSE "none"

\* the except clauses of HtmlBuilder.build and MarkdownBuilder.build, in order
TemplateHandlers(exception) ==
    IF exception = "TemplateNotFound" THEN "TemplateError"
    ELSE IF exception \in JinjaTemplateErrors THEN "RenderError"
    ELSE "RenderError"

\* the except clause of PdfBuilder.build and JsonBuilder.build
RenderHandlers(exception) == "RenderError"

\* build() with no except clause
build_unhandled(b) ==
    LET c == Call("build", FormatName[b.class], b.class, b.theme, b.template)
        body == CASE b.class \in {"HtmlBuilder", "MarkdownBuilder"} -> TemplateBody(b)
                  [] b.class = "PdfBuilder" -> PdfBody(b)
                  [] OTHER -> JsonBody(b)
    IN  IF body = "none" THEN Returns(c, <<"output_path">>, <<>>)
        ELSE Raises(c, body, <<body>>)

\* build() of a core builder
build(b) ==
    LET c == Call("build", FormatName[b.class], b.class, b.theme, b.template)
        body == CASE b.class \in {"HtmlBuilder", "MarkdownBuilder"} -> TemplateBody(b)
                  [] b.class = "PdfBuilder" -> PdfBody(b)
                  [] OTHER -> JsonBody(b)
        handled == IF b.class \in {"HtmlBuilder", "MarkdownBuilder"}
                   THEN TemplateHandlers(body) ELSE RenderHandlers(body)
    IN  IF body = "none" THEN Returns(c, <<"output_path">>, <<>>)
        ELSE [Raises(c, handled, <<"generation failed: ", body>>)
                 EXCEPT !.error_format = FormatName[b.class], !.cause = body]

Build ==
    /\ builder # NoBuilder
    /\ calls < MaxCalls
    /\ call' = build(builder)
    /\ calls' = calls + 1
    /\ UNCHANGED <<_builders, registered, builder, disk, mkdir>>
    /\ UNCHANGED pipeline

-----------------------------------------------------------------------------
(* The builders: ensure_output_directory *)

\* A directory under the output root is named by its depth: 1 is the output
\* directory, n + 1 is a directory inside n.  Depth 0, the place of the
\* output directory, always exists.
Depths == 1..MaxDepth

\* the disk: the directories that exist, and whether the system refuses to
\* create one (permission denied)
Disk(dirs, denied) == [dirs |-> dirs, denied |-> denied]

is_dir(d, depth) == depth = 0 \/ depth \in d.dirs

\* one activation of Path.mkdir(parents, exist_ok) on the directory of a
\* depth: about to call os.mkdir ("mkdir"), in the handler of OSError with
\* the error caught ("check"), or back from creating the parent ("retry")
Frame(depth, parents, exist_ok, at, error) ==
    [depth |-> depth, parents |-> parents, exist_ok |-> exist_ok, at |-> at, error |-> error]

\* a call of ensure_output_directory for the directory of a depth: its stack
\* of activations, its outcome, the OSError that ended it, and the last
\* OSError it passed over
Caller(depth, stack, outcome, cause, met) ==
    [depth |-> depth, stack |-> stack, outcome |-> outcome, cause |-> cause, met |-> met]

\* output_path.parent.mkdir(parents=True, exist_ok=False)
ensure_output_directory_exclusive(depth) ==
    Caller(depth, <<Frame(depth, TRUE, FALSE, "mkdir", "none")>>, "running", "none", "none")

\* ensure_output_directory(output_path), the parent of output_path being the
\* directory of the depth: output_path.parent.mkdir(parents=True, exist_ok=True)
ensure_output_directory(depth) ==
    Caller(depth, <<Frame(depth, TRUE, TRUE, "mkdir", "none")>>, "running", "none", "none")

\* the activation on top returns: the caller below goes on, or the call ends
Returned_(c) ==
    IF Len(c.stack) = 1 THEN Caller(c.depth, <<>>, "ok", "none", c.met)
    ELSE [c EXCEPT !.stack = Tail(@)]

\* an OSError leaves Path.mkdir: no activation below handles it, and
\* ensure_output_directory turns it into a RenderError
Failed(c, error) == Caller(c.depth, <<>>, "RenderError", error, c.met)

\* os.mkdir(self, mode) and the choice of the handler
OsMkdir(p) ==
    /\ mkdir[p].stack # <<>>
    /\ Head(mkdir[p].stack).at = "mkdir"
    /\ LET f == Head(mkdir[p].stack)
           rest == Tail(mkdir[p].stack)
       IN  IF disk.denied
           THEN /\ mkdir' = [mkdir EXCEPT ![p].stack =
                                <<[f EXCEPT !.at = "check", !.error = "PermissionError"]>> \o rest]
                /\ UNCHANGED disk
           ELSE IF is_dir(disk, f.depth)
           THEN /\ mkdir' = [mkdir EXCEPT ![p].stack =
                                <<[f EXCEPT !.at = "check", !.error = "FileExistsError"]>> \o rest]
                /\ UNCHANGED disk
           ELSE IF ~is_dir(disk, f.depth - 1)
           THEN /\ mkdir' = [mkdir EXCEPT ![p] =
                                IF ~f.parents THEN Failed(@, "FileNotFoundError")
                                ELSE [@ EXCEPT !.stack =
                                         <<Frame(f.depth - 1, TRUE, TRUE, "mkdir", "none"),
                                           [f EXCEPT !.at = "retry"]>> \o rest]]
                /\ UNCHANGED disk
           ELSE /\ disk' = [disk EXCEPT !.dirs = @ \cup {f.depth}]
                /\ mkdir' = [mkdir EXCEPT ![p] = Returned_(@)]
    /\ UNCHANGED <<builder, builders, pipeline>>

\* except OSError: if not exist_ok or not self.is_dir(): raise
CheckIsDir(p) ==
    /\ mkdir[p].stack # <<>>
    /\ Head(mkdir[p].stack).at = "check"
    /\ LET f == Head(mkdir[p].stack)
       IN  mkdir' = [mkdir EXCEPT ![p] =
                        IF ~f.exist_ok \/ ~is_dir(disk, f.depth)
                        THEN Failed(@, f.error)
                        ELSE Returned_([@ EXCEPT !.met = f.error])]
    /\ UNCHANGED disk
    /\ UNCHANGED <<builder, builders, pipeline>>

\* the parent is made: self.mkdir(mode, parents=False, exist_ok=exist_ok)
RetryMkdir(p) ==
    /\ mkdir[p].stack # <<>>
    /\ Head(mkdir[p].stack).at = "retry"
    /\ mkdir' = [mkdir EXCEPT ![p].stack =
                    <<[Head(@) EXCEPT !.at = "mkdir", !.parents = FALSE]>> \o Tail(@)]
    /\ UNCHANGED disk
    /\ UNCHANGED <<builder, builders, pipeline>>

\* the two builders that call ensure_output_directory
Callers == {1, 2}

\* the disks of the model: the directories down to some depth exist
Disks == {Disk(1..n, denied) : n \in 0..MaxDepth, denied \in BOOLEAN}

\* two builders call ensure_output_directory at once, each for a directory
InitMkdir ==
    /\ InitIdle
    /\ builder = NoBuilder
    /\ disk \in Disks
    /\ \E a \in Depths, b \in Depths :
          mkdir = <<ensure_output_directory(a), ensure_output_directory(b)>>

\* a step of one of the calls of ensure_output_directory in progress
NextMkdir == \E p \in Callers : OsMkdir(p) \/ CheckIsDir(p) \/ RetryMkdir(p)

SpecMkdir == InitMkdir /\ [][NextMkdir]_vars

-----------------------------------------------------------------------------

NextData == LoadSchema \/ Gate1 \/ Gate2 \/ Gate3

Next == ValidateResumeFile \/ NextData \/ BuildBegin \/ BuildCheck \/ BuildFormat \/ BuildFinish

Spec == Init /\ [][Next]_vars

SpecLint == InitLint /\ [][NextData]_vars

NextRegistry ==
    \/ RegisterBuilder
    \/ UnregisterBuilder
    \/ CreateBuilder
    \/ IsFormatSupported
    \/ GetAvailableFormats
    \/ ConstructDirectly

SpecRegistry == InitRegistry /\ [][NextRegistry]_vars

\* a builder object stands ready for a call of one of its methods
InitBuilders ==
    /\ InitIdle
    /\ builder \in BuilderObjects
    /\ disk = {}
    /\ mkdir = <<>>

NextBuilders == Build

SpecBuilders == InitBuilders /\ [][NextBuilders]_vars

-----------------------------------------------------------------------------
(* The typed document: its computed properties, the template context and   *)
(* the JSON file                                                           *)

\* a field declared Optional whose values are numbers or lists: None, or a
\* value (0 and the empty list are values)
Absent == <<>>
Some(v) == <<v>>
IsNone(o) == Len(o) = 0
Value(o) == o[1]

\* `x or 0` on an Optional[int]
OrZero(x) == IF IsNone(x) \/ Value(x) = 0 THEN 0 ELSE Value(x)

\* an Optional[List] taken as it is, with no `or []`
AsItIs(x) == x

\* `x or []` on an Optional[List]
OrEmptyList(x) == IF IsNone(x) \/ Len(Value(x)) = 0 THEN Some(<<>>) ELSE x

\* bool(x) on an Optional[List]
Truthy(x) == ~IsNone(x) /\ Len(Value(x)) > 0

Max(a, b) == IF a >= b THEN a ELSE b
Min(a, b) == IF a <= b THEN a ELSE b

\* a // b of Python, b > 0: the quotient rounded towards minus infinity
FloorDiv(a, b) == IF a >= 0 THEN a \div b ELSE -(((-a) + b - 1) \div b)

\* a datetime
datetime(year, month, day, hour) == [year |-> year, month |-> month, day |-> day, hour |-> hour]

\* the members of Proficiency and their values
Proficiency ==
    [EXPERT |-> "expert", ADVANCED |-> "advanced",
     INTERMEDIATE |-> "intermediate", BEGINNER |-> "beginner"]

Skill(name, proficiency, years_experience) ==
    [name |-> name, proficiency |-> proficiency, years_experience |-> years_experience]

\* an item of skills.categories: the dict keeps its keys in insertion order
SkillCategory(key, skills) == [key |-> key, skills |-> skills]

Certification(name, expiration_date) == [name |-> name, expiration_date |-> expiration_date]

ResumeDataFields ==
    {"version", "last_updated", "personal_info", "professional_summary", "experience",
     "skills", "education", "certifications", "projects", "awards", "publications",
     "languages", "metadata"}

\* a ResumeData: optional gives certifications, projects, awards,
\* publications and languages, in this order
ResumeData(years_experience, experience, categories, optional) ==
    [version |-> <<"1", ".", "0", ".", "0">>,
     last_updated |-> datetime(2024, 1, 15, 10),
     personal_info |-> [name |-> "Test User"],
     professional_summary |-> [overview_len |-> 180, years_experience |-> years_experience],
     experience |-> experience,
     skills |-> [categories |-> categories],
     education |-> <<[institution |-> "University"]>>,
     certifications |-> optional[1],
     projects |-> optional[2],
     awards |-> optional[3],
     publications |-> optional[4],
     languages |-> optional[5],
     metadata |-> Absent]

\* Experience.duration_months counting both the first and the last month
duration_months_inclusive(exp, current_date) ==
    IF exp.end_date = NoDate
    THEN (current_date.year - exp.start_date[1]) * 12 + (current_date.month - exp.start_date[2]) + 1
    ELSE (exp.end_date[1] - exp.start_date[1]) * 12 + (exp.end_date[2] - exp.start_date[2]) + 1

\* Experience.duration_months, datetime.now() being current_date
duration_months(exp, current_date) ==
    IF exp.end_date = NoDate
    THEN (current_date.year - exp.start_date[1]) * 12 + (current_date.month - exp.start_date[2])
    ELSE (exp.end_date[1] - exp.start_date[1]) * 12 + (exp.end_date[2] - exp.start_date[2])

\* ResumeData.total_experience_years; `exp.duration_months or 0` is
\* exp.duration_months, which is a number
total_experience_years(doc, current_date) ==
    IF OrZero(doc.professional_summary.years_experience) # 0
    THEN Value(doc.professional_summary.years_experience)
    ELSE Max(1, FloorDiv(SumSeq([i \in 1..Len(doc.experience) |->
                                    duration_months(doc.experience[i], current_date)]), 12))

\* ResumeData.current_role: the first entry without end_date, or None
current_role(doc) ==
    LET open == {i \in 1..Len(doc.experience) : is_current(doc.experience[i])}
    IN  IF open = {} THEN Absent
        ELSE Some(doc.experience[CHOOSE i \in open : \A j \in open : i <= j])

\* Certification.is_expired
is_expired(cert, current_date) ==
    /\ cert.expiration_date # NoDate
    /\ StrLess(cert.expiration_date, <<current_date.year, current_date.month>>)

\* ResumeData.active_certifications
active_certifications(doc, current_date) ==
    IF ~Truthy(doc.certifications) THEN <<>>
    ELSE LET NotExpired(cert) == ~is_expired(cert, current_date)
         IN  SelectSeq(Value(doc.certifications), NotExpired)

\* proficiency_order of get_top_skills
proficiency_order == [EXPERT |-> 4, ADVANCED |-> 3, INTERMEDIATE |-> 2, BEGINNER |-> 1]

\* all_skills of get_top_skills: the skills of every category, in the order
\* of the categories
AllSkills(doc) ==
    Concat([c \in 1..Len(doc.skills.categories) |-> doc.skills.categories[c].skills])

\* the key of the sort
SkillKey(s) == <<proficiency_order[s.proficiency], OrZero(s.years_experience)>>

\* a < b on two keys, as tuples compare
KeyLess(a, b) == a[1] < b[1] \/ (a[1] = b[1] /\ a[2] < b[2])

\* sorted(all_skills, key=..., reverse=True): descending, and skills with
\* equal keys keep their order
RECURSIVE InsertByKey(_, _)
InsertByKey(sorted, s) ==
    IF Len(sorted) = 0 THEN <<s>>
    ELSE IF KeyLess(SkillKey(Head(sorted)), SkillKey(s))
         THEN <<s>> \o sorted
         ELSE <<Head(sorted)>> \o InsertByKey(Tail(sorted), s)

RECURSIVE SortSkillsFrom(_, _)
SortSkillsFrom(sorted, rest) ==
    IF Len(rest) = 0 THEN sorted
    ELSE SortSkillsFrom(InsertByKey(sorted, Head(rest)), Tail(rest))

\* s[:limit]
Slice(s, limit) ==
    IF limit >= 0 THEN SubSeq(s, 1, Min(limit, Len(s)))
    ELSE SubSeq(s, 1, Max(0, Len(s) + limit))

Reverse(s) == [i \in 1..Len(s) |-> s[Len(s) + 1 - i]]

\* get_top_skills as sorted(all_skills, key=...)[::-1][:limit]: skills with
\* equal keys come out in the reverse of their order
get_top_skills_reversed(doc, limit) ==
    Slice(SortSkillsFrom(<<>>, Reverse(AllSkills(doc))), limit)

\* ResumeData.get_top_skills
get_top_skills(doc, limit) == Slice(SortSkillsFrom(<<>>, AllSkills(doc)), limit)

\* n as two digits
TwoDigits(n) == IF n < 10 THEN <<"0">> \o Str(n) ELSE Str(n)

\* "YYYY-MM-DD" sep "HH:MM:SS" of a datetime
DateTimeText(d, sep) ==
    Str(d.year) \o <<"-">> \o TwoDigits(d.month) \o <<"-">> \o TwoDigits(d.day)
    \o <<sep>> \o TwoDigits(d.hour) \o <<":", "0", "0", ":", "0", "0">>

\* datetime.isoformat()
isoformat(d) == DateTimeText(d, "T")

\* str(datetime)
DateTimeStr(d) == DateTimeText(d, " ")

\* strftime("%B %Y")
MonthAndYear(d) == [month |-> d.month, year |-> d.year]

\* prepare_context of a builder with this theme and format name,
\* datetime.now() being build_timestamp
prepare_context(theme, format_name, document, build_timestamp) ==
    [personal_info |-> document.personal_info,
     professional_summary |-> document.professional_summary,
     experience |-> document.experience,
     skills |-> document.skills,
     education |-> document.education,
     certifications |-> OrEmptyList(document.certifications),
     projects |-> OrEmptyList(document.projects),
     awards |-> OrEmptyList(document.awards),
     publications |-> OrEmptyList(document.publications),
     languages |-> OrEmptyList(document.languages),
     metadata |-> [build_date |-> isoformat(build_timestamp),
                   build_date_formatted |-> MonthAndYear(build_timestamp),
                   resume_version |-> document.version,
                   last_updated |-> isoformat(document.last_updated),
                   last_updated_formatted |-> MonthAndYear(document.last_updated),
                   theme |-> theme,
                   format |-> format_name,
                   builder_version |-> <<"1", ".", "0", ".", "0">>],
     utils |-> [total_experience_years |-> total_experience_years(document, build_timestamp),
                current_role |-> current_role(document),
                active_certifications |-> active_certifications(document, build_timestamp),
                has_projects |-> Truthy(document.projects),
                has_publications |-> Truthy(document.publications),
                has_awards |-> Truthy(document.awards),
                has_languages |-> Truthy(document.languages)]]

\* JsonBuilder.build: resume_dict, a dict with its keys; model_dump() keeps
\* the datetime and the members of Proficiency as they are
ResumeDict(document, theme, now) ==
    [keys |-> ResumeDataFields \cup {"build_info", "analytics"},
     model |-> document,
     build_info |->
        [build_date |-> isoformat(now),
         builder_version |-> <<"1", ".", "0", ".", "0">>,
         format |-> json,
         theme |-> theme,
         last_updated |-> isoformat(document.last_updated),
         data_integrity |->
            [sections_count |-> 5 + Len(SelectSeq(<<document.certifications, document.projects,
                                                    document.awards, document.publications,
                                                    document.languages>>, Truthy)),
             total_experience_entries |-> Len(document.experience),
             total_skills |-> Len(AllSkills(document)),
             has_certifications |-> Truthy(document.certifications),
             has_projects |-> Truthy(document.projects),
             has_awards |-> Truthy(document.awards),
             has_publications |-> Truthy(document.publications),
             has_languages |-> Truthy(document.languages)]],
     analytics |->
        [experience_summary |->
            [total_years |-> total_experience_years(document, now),
             current_role |-> current_role(document)]]]

\* the categories with each proficiency converted by f
MapProficiency(categories, f(_)) ==
    [c \in 1..Len(categories) |->
        [categories[c] EXCEPT !.skills =
            [s \in 1..Len(categories[c].skills) |->
                [categories[c].skills[s] EXCEPT !.proficiency = f(@)]]]]

\* how the encoder writes a member of Proficiency, a str: its value
ProficiencyText(member) == <<Proficiency[member]>>

\* json.dump(resume_dict, default=str): the content of the file, as
\* json.load reads it back.  A datetime and a model are not serializable:
\* default=str writes str() of them
JsonDump(resume_dict) ==
    [resume_dict EXCEPT
        !.model = [@ EXCEPT
            !.last_updated = DateTimeStr(@),
            !.skills = [categories |-> MapProficiency(@.categories, ProficiencyText)]],
        !.analytics = [experience_summary |->
            [@.experience_summary EXCEPT
                !.current_role = IF IsNone(@) THEN Absent
                                 ELSE Some(<<"company=", Value(@).company>>)]]]

\* the dict read from the file, without the entries build() added
WithoutInjected(d) ==
    [keys |-> d.keys \ {"build_info", "analytics"}, model |-> d.model]

IsDigit(c) == \E n \in 1..10 : Digits[n] = c

DigitValue(c) == (CHOOSE n \in 1..10 : Digits[n] = c) - 1

\* int(text)
RECURSIVE ParseInt(_)
ParseInt(text) ==
    IF Len(text) = 0 THEN 0
    ELSE ParseInt(SubSeq(text, 1, Len(text) - 1)) * 10 + DigitValue(text[Len(text)])

\* the datetime a string is validated to, or None: date and time are
\* separated by "T", "t", "_" or a space
ParseDateTime(text) ==
    IF /\ Len(text) = 19
       /\ \A i \in {1, 2, 3, 4, 6, 7, 9, 10, 12, 13, 15, 16, 18, 19} : IsDigit(text[i])
       /\ text[5] = "-" /\ text[8] = "-"
       /\ text[11] \in {"T", "t", "_", " "}
       /\ text[14] = ":" /\ text[17] = ":"
    THEN Some(datetime(ParseInt(SubSeq(text, 1, 4)), ParseInt(SubSeq(text, 6, 7)),
                       ParseInt(SubSeq(text, 9, 10)), ParseInt(SubSeq(text, 12, 13))))
    ELSE Absent

\* the members of Proficiency a string is the value of
ProficiencyMembers(text) ==
    {member \in DOMAIN Proficiency : <<Proficiency[member]>> = text}

ProficiencyMember(text) == CHOOSE member \in ProficiencyMembers(text) : TRUE

\* ResumeData(**d) on a dict read from a JSON file: the typed document, or
\* None when the construction fails (extra = "forbid", a string that is no
\* datetime, a string that is no value of Proficiency)
ResumeDataFrom(d) ==
    LET last_updated == ParseDateTime(d.model.last_updated)
        categories == d.model.skills.categories
    IN  IF \/ ~(d.keys \subseteq ResumeDataFields)
           \/ IsNone(last_updated)
           \/ \E c \in 1..Len(categories) : \E s \in 1..Len(categories[c].skills) :
                 ProficiencyMembers(categories[c].skills[s].proficiency) = {}
        THEN Absent
        ELSE Some([d.model EXCEPT
                     !.last_updated = Value(last_updated),
                     !.skills = [categories |-> MapProficiency(categories, ProficiencyMember)]])

\* the values of datetime.now()
Nows == {datetime(2024, 1, 15, 10), datetime(2019, 6, 1, 0)}

DocumentYears == {Absent, Some(0), Some(8), Some(50)}

\* every list of 1..n positions: open or closed, long or shorter than a year
RECURSIVE PositionLists(_)
PositionLists(n) ==
    IF n = 0 THEN {<<>>}
    ELSE {Append(l, Experience(Companies[n], d[1], d[2], PlainAchievements)) :
            l \in PositionLists(n - 1),
            d \in {<< <<2020, 1>>, NoDate >>, << <<2020, 1>>, <<2022, 1>> >>,
                   << <<2023, 6>>, NoDate >>, << <<2021, 3>>, <<2021, 9>> >>}}

DocumentExperience == UNION {PositionLists(n) : n \in 1..MaxExperience}

\* categories with skills of equal keys, within a category and across two,
\* and with years_experience missing
DocumentCategories ==
    { <<SkillCategory("cloud", <<Skill("AWS", "EXPERT", Some(5))>>)>>,
      <<SkillCategory("cloud", <<Skill("Kubernetes", "EXPERT", Some(5)),
                                 Skill("AWS", "EXPERT", Some(5)),
                                 Skill("GCP", "ADVANCED", Absent),
                                 Skill("Azure", "BEGINNER", Some(0))>>)>>,
      <<SkillCategory("cloud", <<Skill("AWS", "INTERMEDIATE", Absent),
                                 Skill("GCP", "INTERMEDIATE", Some(0))>>),
        SkillCategory("languages", <<Skill("Python", "EXPERT", Some(3)),
                                     Skill("Go", "INTERMEDIATE", Some(0)),
                                     Skill("Rust", "EXPERT", Some(3))>>)>> }

\* certifications, projects, awards, publications, languages
OptionalSections ==
    { <<Absent, Absent, Absent, Absent, Absent>>,
      <<Some(<<>>), Some(<<>>), Some(<<>>), Some(<<>>), Some(<<>>)>>,
      <<Some(<<Certification("CKA", <<2023, 1>>), Certification("AWS SA", NoDate)>>),
        Some(<<"project">>), Some(<<"award">>), Some(<<"article">>), Some(<<"English">>)>>,
      <<Absent, Some(<<>>), Some(<<"award">>), Absent, Some(<<"English", "French">>)>> }

Documents ==
    {ResumeData(y, e, c, o) : y \in DocumentYears, e \in DocumentExperience,
                              c \in DocumentCategories, o \in OptionalSections}

\* a call of a method of the document or of a builder, and its outcome
MethodCall(op, document, arguments, returned, raised) ==
    [op |-> op, document |-> document, arguments |-> arguments,
     returned |-> returned, raised |-> raised]

\* the classes of builders that can be constructed
Constructible == {c \in DOMAIN BuilderClasses : BuilderClasses[c] \in {"base", "super2"}}

JsonBuilders == {b \in BuilderObjects : b.class = "JsonBuilder"}

\* a validated document is at hand, and one method is called
InitDocument ==
    /\ entry = "builders"
    /\ resume = "ok"
    /\ schema = "ok"
    /\ data = NoData
    /\ pc = "builders"
    /\ errors = <<>>
    /\ warnings = <<>>
    /\ resume_data \in Documents
    /\ gates = <<>>
    /\ result = NoResult
    /\ cli = IdleCommand
    /\ _builders = _register_core_builders
    /\ registered = CoreRegistrations
    /\ call = NoCall
    /\ calls = 0
    /\ builder = NoBuilder
    /\ disk = {}
    /\ mkdir = <<>>

PrepareContext ==
    /\ call = NoCall
    /\ \E c \in Constructible, theme \in Themes, now \in Nows :
          call' = MethodCall("prepare_context", resume_data,
                             [class |-> c, theme |-> theme, now |-> now],
                             prepare_context(theme, FormatName[c], resume_data, now), "none")
    /\ UNCHANGED <<_builders, registered, calls>>
    /\ UNCHANGED pipeline
    /\ UNCHANGED site

TotalExperienceYears ==
    /\ call = NoCall
    /\ \E now \in Nows :
          call' = MethodCall("total_experience_years", resume_data, [now |-> now],
                             total_experience_years(resume_data, now), "none")
    /\ UNCHANGED <<_builders, registered, calls>>
    /\ UNCHANGED pipeline
    /\ UNCHANGED site

DurationMonths ==
    /\ call = NoCall
    /\ \E i \in 1..Len(resume_data.experience), now \in Nows :
          call' = MethodCall("duration_months", resume_data, [index |-> i, now |-> now],
                             duration_months(resume_data.experience[i], now), "none")
    /\ UNCHANGED <<_builders, registered, calls>>
    /\ UNCHANGED pipeline
    /\ UNCHANGED site

GetTopSkills ==
    /\ call = NoCall
    /\ \E limit \in (-1)..MaxLimit :
          call' = MethodCall("get_top_skills", resume_data, [limit |-> limit],
                             get_top_skills(resume_data, limit), "none")
    /\ UNCHANGED <<_builders, registered, calls>>
    /\ UNCHANGED pipeline
    /\ UNCHANGED site

\* JsonBuilder.build and the file it leaves
JsonBuild ==
    /\ call = NoCall
    /\ \E b \in JsonBuilders, now \in Nows :
          LET outcome == build(b)
          IN  call' = MethodCall("build", resume_data, [self |-> b, now |-> now],
                                 IF outcome.raised = "none"
                                 THEN Some(JsonDump(ResumeDict(resume_data, b.theme, now)))
                                 ELSE Absent,
                                 outcome.raised)
    /\ UNCHANGED <<_builders, registered, calls>>
    /\ UNCHANGED pipeline
    /\ UNCHANGED site

NextDocument == PrepareContext \/ TotalExperienceYears \/ DurationMonths \/ GetTopSkills \/ JsonBuild

SpecDocument == InitDocument /\ [][NextDocument]_vars

-----------------------------------------------------------------------------
(* Properties *)

\* a ValidationResult was returned
Returned == result # NoResult

\* the raw data satisfies the structural schema, which is a valid schema
Gate1Passes == schema = "ok" /\ Len(SchemaErrors(data)) = 0

\* the raw data satisfies every typed constraint
Gate2Passes == data.kind = "mapping" /\ Len(ModelErrors(data)) = 0

FailedResult == ~result.is_valid /\ result.data = None /\ result.warnings = <<>>

\* C1: the gates run in the order 1, 2, 3 and a gate runs only when every
\* earlier gate passed; when Gate 1 fails only Gate 1 was executed, when Gate 2
\* fails only Gates 1 and 2 were, and in both cases the result has
\* is_valid = false, data = None and no warnings.
C1_GatesInOrder ==
    /\ gates \in {<<>>, <<1>>, <<1, 2>>, <<1, 2, 3>>}
    /\ (Len(gates) >= 2 => Gate1Passes)
    /\ (Len(gates) >= 3 => Gate1Passes /\ Gate2Passes)
    /\ (Returned /\ Len(gates) >= 1 /\ ~Gate1Passes => gates = <<1>> /\ FailedResult)
    /\ (Returned /\ Len(gates) >= 1 /\ Gate1Passes /\ ~Gate2Passes
            => gates = <<1, 2>> /\ FailedResult)

\* Gate 1 failed on a document that Gate 2 would have rejected too
C1_Witness ==
    /\ Returned
    /\ gates = <<1>>
    /\ schema = "ok"
    /\ data.kind = "mapping"
    /\ Len(SchemaErrors(data)) > 0
    /\ Len(ModelErrors(data)) > 0
    /\ FailedResult

\* C2: the build command constructs a builder, runs a build or writes a file
\* only after validate_resume_file returned a valid result in the same run;
\* when validation fails or cannot be run the command ends with exit code 1
\* and has constructed no builder and written no file.
C2_BuildOnlyAfterValidation ==
    /\ (pc = "cli_loop" \/ Len(cli.constructed) > 0 \/ cli.written # {} \/ Len(cli.formats) > 0
            => Returned /\ result.is_valid /\ result.data # None)
    /\ (entry = "build" /\ Returned /\ ~result.is_valid => pc \in {"cli_check", "exit"})
    /\ (pc = "exit" /\ (~Returned \/ ~result.is_valid)
            => cli.exit = 1 /\ cli.constructed = <<>> /\ cli.written = {}
               /\ cli.built_files = <<>>)

\* the command ended after a validation that Gate 2 failed
C2_Witness ==
    /\ entry = "build"
    /\ pc = "exit"
    /\ Returned
    /\ ~result.is_valid
    /\ gates = <<1, 2>>
    /\ cli.exit = 1
    /\ cli.constructed = <<>>

\* C3: in every returned result is_valid is true exactly when errors is empty
\* and data is populated exactly when is_valid is true.
C3_ResultContract ==
    Returned =>
        /\ (result.is_valid <=> Len(result.errors) = 0)
        /\ (result.data # None <=> result.is_valid)

\* a valid result with its document and warnings
C3_Witness ==
    /\ Returned
    /\ result.is_valid
    /\ result.data = data
    /\ Len(result.errors) = 0
    /\ Len(result.warnings) > 0

\* C4: a document that passes Gates 1 and 2 is returned valid, with its data
\* and with no error, however many warnings the business rules give.
C4_WarningsNeverInvalidate ==
    Returned /\ Gate1Passes /\ Gate2Passes =>
        /\ result.is_valid
        /\ result.data = data
        /\ result.errors = <<>>

\* a valid result with four warnings, a chronology warning among them
C4_Witness ==
    /\ Returned
    /\ result.is_valid
    /\ Len(result.warnings) >= 4
    /\ result.warnings[1][1] = "Potential employment gap between "

\* C7: neither function raises: each run ends with a returned result, and
\* when the resume file or the schema file is missing, unreadable or
\* malformed the result is invalid with at least one error.
C7_NeverRaises ==
    /\ pc # "raised"
    /\ (pc = "done" => Returned)
    /\ (Returned /\ (resume # "ok" \/ schema # "ok")
            => ~result.is_valid /\ Len(result.errors) > 0 /\ result.data = None)

\* validate_resume_data returned for a schema file that is not JSON
C7_Witness ==
    /\ entry = "data"
    /\ pc = "done"
    /\ schema = "bad_json"
    /\ Returned
    /\ ~result.is_valid
    /\ result.errors = << <<"Unexpected validation error: ", "JSONDecodeError">> >>

\* the fields of a raw document that violate a typed constraint, each by its
\* path: a document holds one value per field, so a field is violated or not
ViolatedFields(doc) ==
    {<< <<k>> >> : k \in {x \in DOMAIN doc.top : doc.top[x] # "ok"}}
    \cup (IF doc.extra THEN {<< <<"unknown_field">> >>} ELSE {})
    \cup (IF doc.top["personal_info"] = "ok" /\ doc.name_len \notin NameMin..NameMax
          THEN {<< <<"personal_info">>, <<"name">> >>} ELSE {})
    \cup (IF doc.top["professional_summary"] = "ok"
             /\ doc.overview_len \notin OverviewMin..OverviewMax
          THEN {<< <<"professional_summary">>, <<"overview">> >>} ELSE {})
    \cup (IF doc.top["education"] = "ok" /\ doc.education_n < EducationMin
          THEN {<< <<"education">> >>} ELSE {})
    \cup (IF doc.top["skills"] = "ok"
          THEN {<< <<"skills">>, <<"categories">>, <<"category">> \o Str(c), <<"skills">> >> :
                  c \in {x \in 1..Len(doc.categories) : Len(doc.categories[x]) < SkillsMin}}
          ELSE {})
    \cup (IF doc.top["experience"] # "ok" THEN {}
          ELSE IF Len(doc.experience) < ExperienceMin THEN {<< <<"experience">> >>}
          ELSE UNION {
                 (IF DatePattern(doc.experience[i].start_date) THEN {}
                  ELSE {<< <<"experience">>, Str(i - 1), <<"start_date">> >>})
                 \cup
                 (IF Len(doc.experience[i].achievements) \in AchievementsMin..AchievementsMax
                  THEN UNION {
                         {<< <<"experience">>, Str(i - 1), <<"achievements">>, Str(j - 1),
                             <<"metrics">>, Str(m - 1), <<"value">> >> :
                            m \in {x \in 1..Len(doc.experience[i].achievements[j].metrics) :
                                     ~IsMember(doc.experience[i].achievements[j].metrics[x],
                                               MetricValueUnion)}}
                         : j \in 1..Len(doc.experience[i].achievements)}
                  ELSE {<< <<"experience">>, Str(i - 1), <<"achievements">> >>})
                 : i \in 1..Len(doc.experience)})

\* those of the violated fields whose type is a union
ViolatedUnionFields(doc) ==
    {f \in ViolatedFields(doc) : f[Len(f)] = <<"value">>}

\* Gate 2 was the gate that failed
Gate2Failed == Returned /\ gates = <<1, 2>> /\ data.kind = "mapping"

\* the text of an error names the field
NamesField(line, f) == Contains(line, Join(f, " -> "))

C6_AllSchemaViolationsCollected ==
    Returned /\ gates = <<1>> /\ schema = "ok" =>
        /\ FailedResult
        /\ \A v \in 1..Len(SchemaErrors(data)) :
              LET lines == SchemaErrorLines(SchemaErrors(data)[v])
              IN  \A l \in 1..Len(lines) :
                      \E i \in 1..Len(result.errors) : result.errors[i] = lines[l]

\* how many of the returned warnings satisfy P
Warned(P(_)) == Cardinality({i \in 1..Len(result.warnings) : P(result.warnings[i])})

\* entries i and j follow each other when the entries are ordered by start
\* date: i starts before j and no other entry starts from i's start to j's
AdjacentByStart(experience, i, j) ==
    /\ i # j
    /\ StrLess(experience[i].start_date, experience[j].start_date)
    /\ \A k \in (1..Len(experience)) \ {i, j} :
          \/ StrLess(experience[k].start_date, experience[i].start_date)
          \/ StrLess(experience[j].start_date, experience[k].start_date)

\* the months from the end of the earlier position to the start of the later
MonthsBetween(end, start) == (start[1] * 12 + start[2]) - (end[1] * 12 + end[2])

IsGapWarningFor(w, earlier, later) ==
    /\ w[1] = "Potential employment gap between "
    /\ Contains(w, <<earlier.company>>)
    /\ Contains(w, <<later.company>>)

\* C8 as stated: for two entries that follow each other by start date, a
\* warning of a potential employment gap naming both companies is emitted
\* exactly when the earlier one has an end date and the later one starts more
\* than 6 months after it.
C8_EmploymentGapWarned ==
    Returned /\ result.is_valid =>
        \A i, j \in 1..Len(data.experience) :
            AdjacentByStart(data.experience, i, j) =>
                LET earlier == data.experience[i]
                    later == data.experience[j]
                IN  (/\ earlier.end_date # NoDate
                     /\ MonthsBetween(earlier.end_date, later.start_date) > 6)
                    <=> \E w \in 1..Len(result.warnings) :
                            IsGapWarningFor(result.warnings[w], earlier, later)

IsFewSkillsWarning(w) ==
    w[1] = "Only " /\ w[Len(w)] = " skills listed - consider adding more for ATS optimization"

IsManySkillsWarning(w) ==
    w[Len(w)] = " skills listed - consider focusing on top skills for readability"

\* C9 as stated: below 10 skills in total there is exactly one skill-count
\* warning and its text contains the threshold 10; above 50 there is exactly
\* one too-many-skills warning; from 10 to 50 there is neither.
C9_SkillCountWarned ==
    Returned /\ result.is_valid =>
        LET total == SumSeq([c \in 1..Len(data.categories) |-> Len(data.categories[c])])
        IN  /\ (total < 10 =>
                    /\ Warned(IsFewSkillsWarning) = 1
                    /\ Warned(IsManySkillsWarning) = 0
                    /\ \A i \in 1..Len(result.warnings) :
                          IsFewSkillsWarning(result.warnings[i])
                              => Contains(result.warnings[i], <<"1", "0">>))
            /\ (total > 50 =>
                    Warned(IsManySkillsWarning) = 1 /\ Warned(IsFewSkillsWarning) = 0)
            /\ (total \in 10..50 =>
                    Warned(IsManySkillsWarning) = 0 /\ Warned(IsFewSkillsWarning) = 0)

IsNoCurrentWarning(w) == w = NoCurrentWarning
IsMultipleCurrentWarning(w) == w = MultipleCurrentWarning

\* the experiences of the raw document that have no end date
OpenEnded == {i \in 1..Len(data.experience) : data.experience[i].end_date = NoDate}

\* C10: with no experience without end date there is exactly one warning, the
\* one of no current position; with more than one there is exactly one, the
\* one of multiple current positions; with exactly one there is neither.
C10_CurrentPositionWarned ==
    Returned /\ result.is_valid =>
        /\ (Cardinality(OpenEnded) = 0 =>
                Warned(IsNoCurrentWarning) = 1 /\ Warned(IsMultipleCurrentWarning) = 0)
        /\ (Cardinality(OpenEnded) > 1 =>
                Warned(IsNoCurrentWarning) = 0 /\ Warned(IsMultipleCurrentWarning) = 1)
        /\ (Cardinality(OpenEnded) = 1 =>
                Warned(IsNoCurrentWarning) = 0 /\ Warned(IsMultipleCurrentWarning) = 0)

\* two positions without end date, and the one warning about them
C10_Witness ==
    /\ Returned
    /\ result.is_valid
    /\ Cardinality(OpenEnded) = 2
    /\ Warned(IsMultipleCurrentWarning) = 1

-----------------------------------------------------------------------------
(* Typed construction of an Experience *)

\* Gate 2 ran on the raw document
Gate2Ran == Returned /\ data.kind = "mapping" /\ Len(gates) >= 2

\* every field other than the number of achievements of an experience is valid
OnlyAchievementCounts(doc) ==
    \A f \in ViolatedFields(doc) : f[Len(f)] = <<"achievements">>

\* C11 as stated: an Experience is accepted by typed construction exactly when
\* it has between 1 and 12 achievements, the other fields being valid.
C11_AchievementsBetween1And12 ==
    Gate2Ran /\ OnlyAchievementCounts(data) =>
        (result.is_valid <=>
            \A i \in 1..Len(data.experience) :
                Len(data.experience[i].achievements) \in 1..12)

-----------------------------------------------------------------------------
(* Properties of the builders package *)

\* two names are equal after lower-casing and trimming
SameFormat(a, b) == Normalize(a) = Normalize(b)

\* the last call was `op` and returned
Called(op) == call.op = op

\* C12: a lookup by any name that equals a registered name after lower-casing
\* and trimming answers as the lookup by the registered name itself does:
\* is_format_supported answers True, and create_builder selects the class
\* registered under that name and has the same outcome.
C12_LookupIgnoresCaseAndSpace ==
    \A r \in registered :
        SameFormat(call.format_type, r[1]) =>
            /\ (Called("is_format_supported") =>
                    /\ call.returned = TRUE
                    /\ is_format_supported(_builders, r[1]))
            /\ (Called("create_builder") =>
                    /\ call.builder_class = r[2]
                    /\ [call EXCEPT !.format_type = r[1]]
                          = create_builder(_builders, r[1], call.theme, call.templates))

\* a class registered as " html " was created by the name "HTML"
C12_Witness ==
    /\ Called("create_builder")
    /\ call.format_type = <<"H", "T", "M", "L">>
    /\ <<<<" ", "h", "t", "m", "l", " ">>, "PlainBuilder">> \in registered
    /\ call.raised = "none"
    /\ call.returned.class = "PlainBuilder"

\* the normalized names of the recorded registrations
RecordedNames == {Normalize(r[1]) : r \in registered}

\* the registry holds exactly the recorded registrations
RegistryAsRecorded ==
    /\ DOMAIN _builders = RecordedNames
    /\ \A r \in registered : _builders[Normalize(r[1])] = r[2]

\* the names of a set in ascending order: the i-th is the one with i - 1
\* names of the set below it
Ascending(names) ==
    [i \in 1..Cardinality(names) |->
        CHOOSE k \in names : Cardinality({j \in names : NameLess(j, k)}) = i - 1]

\* C13: create_builder with a non-empty name that is not registered fails
\* with a ValueError whose message lists the registered names in ascending
\* order joined by ', ', or says 'none registered' when there is none, and
\* the registry is as it was.
C13_UnknownFormatListsRegistered ==
    (/\ Called("create_builder")
     /\ call.format_type # <<>>
     /\ \A r \in registered : ~SameFormat(call.format_type, r[1]))
    => /\ call.raised = "ValueError"
       /\ call.message =
             <<"Unknown format ">> \o Quoted(Normalize(call.format_type))
             \o <<". Available formats: ">>
             \o (IF registered = {} THEN <<"none registered">>
                 ELSE Join(Ascending(RecordedNames), ", "))
       /\ RegistryAsRecorded

\* only html and json are registered and pdf is asked for: "html, json"
C13_Witness ==
    /\ Called("create_builder")
    /\ call.format_type = pdf
    /\ RecordedNames = {html, json}
    /\ call.raised = "ValueError"
    /\ Contains(call.message, html \o <<", ">> \o json)

UpperCase == {"H", "L", "M", "T"}

\* a name is lower-case, trimmed and non-empty
IsNormalized(k) ==
    /\ k # <<>>
    /\ \A i \in 1..Len(k) : k[i] \notin UpperCase
    /\ k[1] \notin Whitespace
    /\ k[Len(k)] \notin Whitespace

\* C14: get_available_formats returns, in ascending order and without
\* duplicates, exactly the normalized names registered and not unregistered
\* since; every key of the registry is lower-case, trimmed and non-empty.
C14_AvailableFormatsSorted ==
    /\ \A k \in DOMAIN _builders : IsNormalized(k)
    /\ DOMAIN _builders = RecordedNames
    /\ Called("get_available_formats") =>
          /\ {call.returned[i] : i \in 1..Len(call.returned)} = RecordedNames
          /\ \A i, j \in 1..Len(call.returned) :
                i < j => NameLess(call.returned[i], call.returned[j])

\* registered as " html " and as "json": the formats are html, json
C14_Witness ==
    /\ Called("get_available_formats")
    /\ call.returned = <<html, json>>
    /\ \E r \in registered : r[1] = <<" ", "h", "t", "m", "l", " ">>

\* a name is empty or made of whitespace only
IsBlank(name) == \A i \in 1..Len(name) : name[i] \in Whitespace

\* C15: register_builder rejects with ValueError a name that is empty or
\* whitespace only, and a class that is not a subclass of BaseBuilder; the
\* registry is then as it was before the call.
C15_RegisterRejectsBadArguments ==
    (/\ Called("register_builder")
     /\ (IsBlank(call.format_type) \/ call.builder_class = "NotABuilder"))
    => /\ call.raised = "ValueError"
       /\ RegistryAsRecorded
       /\ \A r \in registered : r[1] # call.format_type \/ r[2] # call.builder_class

\* a class that is not a builder was refused for html, which keeps its class
C15_Witness ==
    /\ Called("register_builder")
    /\ call.format_type = html
    /\ call.builder_class = "NotABuilder"
    /\ call.raised = "ValueError"
    /\ html \in DOMAIN _builders
    /\ _builders[html] = "HtmlBuilder"

\* the events of a call hold the warning of an overridden registration
WarnsOfOverride(events) ==
    \E i \in 1..Len(events) :
        /\ events[i].level = "warning"
        /\ Contains(events[i].message, <<"Overriding existing builder">>)

\* C16: registering a builder class under a name that is already registered
\* does not raise, emits the warning 'Overriding existing builder', and leaves
\* the name mapped to the class just registered; under a new name it emits
\* no such warning.
C16_LastRegistrationWins ==
    [][(/\ call'.op = "register_builder"
        /\ ~IsBlank(call'.format_type)
        /\ call'.builder_class # "NotABuilder")
       => /\ call'.raised = "none"
          /\ _builders'[Normalize(call'.format_type)] = call'.builder_class
          /\ WarnsOfOverride(call'.events)
                <=> \E r \in registered : SameFormat(r[1], call'.format_type)]_vars

\* html, registered by the import, was registered again with another class
C16_Witness ==
    /\ Called("register_builder")
    /\ call.format_type = <<"H", "T", "M", "L">>
    /\ call.builder_class = "PlainBuilder"
    /\ call.raised = "none"
    /\ WarnsOfOverride(call.events)
    /\ Contains(call.events[1].message, <<"HtmlBuilder", " -> ", "PlainBuilder">>)
    /\ _builders[html] = "PlainBuilder"

\* C17: unregister_builder answers True exactly when the normalized name was
\* registered before the call; after the call the name is not registered and
\* every other registration is as it was; when it answers False the registry
\* is as it was.
C17_UnregisterRemovesOnlyTheName ==
    [][call'.op = "unregister_builder"
       => LET key == Normalize(call'.format_type)
          IN  /\ call'.returned = (key \in DOMAIN _builders)
              /\ key \notin DOMAIN _builders'
              /\ DOMAIN _builders' = DOMAIN _builders \ {key}
              /\ \A k \in DOMAIN _builders' : _builders'[k] = _builders[k]
              /\ (call'.returned = FALSE => _builders' = _builders)]_vars

\* html was unregistered by the name " html ", and json is still registered
C17_Witness ==
    /\ Called("unregister_builder")
    /\ call.format_type = <<" ", "h", "t", "m", "l", " ">>
    /\ call.returned = TRUE
    /\ html \notin DOMAIN _builders
    /\ json \in DOMAIN _builders

\* C18: an exception raised by the constructor of the registered class during
\* create_builder reaches the caller as a BuilderError whose format_type is
\* the normalized name and whose cause is that exception; nothing else
\* escapes from the construction.
C18_ConstructionFailureWrapped ==
    \A r \in registered :
        Called("create_builder") /\ SameFormat(call.format_type, r[1]) =>
            LET original == Construct(r[2], call.theme, call.templates).raised
            IN  /\ call.raised \in {"none", "BuilderError"}
                /\ (original = "none" => call.raised = "none")
                /\ (original # "none" =>
                        /\ call.raised = "BuilderError"
                        /\ call.error_format = Normalize(call.format_type)
                        /\ call.cause = original)

\* the template check of BaseBuilder failed inside create_builder("HTML", ...)
C18_Witness ==
    /\ Called("create_builder")
    /\ call.format_type = <<"H", "T", "M", "L">>
    /\ call.builder_class = "ConfiguredBuilder"
    /\ call.templates = "missing"
    /\ call.raised = "BuilderError"
    /\ call.cause = "TemplateError"
    /\ call.error_format = html

\* the last call constructed a builder of the class, directly or by the factory
Constructing(classes) ==
    /\ call.op \in {"construct", "create_builder"}
    /\ call.builder_class \in classes

\* C19 as stated: constructing a core builder, directly or through
\* create_builder, with an existing templates directory succeeds and yields
\* a builder whose resume_data, output_dir and theme are the values given.
C19_CoreBuilderConstructed ==
    Constructing(CoreClasses) /\ call.templates = "ok" =>
        /\ call.raised = "none"
        /\ call.returned.resume_data = "resume_data"
        /\ call.returned.output_dir = "output_dir"
        /\ call.returned.theme = call.theme

\* the classes whose construction runs BaseBuilder.__init__
BaseInitClasses ==
    {c \in DOMAIN BuilderClasses : BuilderClasses[c] \in {"super3", "base", "super2"}}

\* C20 as stated: the construction of a builder fails with a TemplateError
\* whenever the template root of its format is missing.
C20_MissingTemplateRootFailsFast ==
    (/\ Called("construct")
     /\ call.builder_class \in BaseInitClasses
     /\ call.templates \in {"missing", "no_format_root"})
    => call.raised = "TemplateError"

-----------------------------------------------------------------------------
(* Properties of the build command and of the builders *)

IsKnownFormat(fmt) == fmt \in KnownFormats

\* the formats among the first n requested for which a builder exists
Attempted(n) == SelectSeq(SubSeq(cli.formats, 1, n), IsKnownFormat)

\* C21: the failure of the builder of one requested format does not keep the
\* following formats from being attempted, in the order of the request; the
\* command succeeds when a format was built and fails only when none was.
C21_FormatsBuiltIndependently ==
    /\ (pc = "cli_loop" => cli.constructed = Attempted(cli.next - 1))
    /\ (pc = "exit" /\ cli.formats # <<>> =>
            /\ cli.constructed = Attempted(Len(cli.formats))
            /\ cli.exit = IF cli.built_files # <<>> THEN 0 ELSE 1)

\* two formats were requested, the first failed and the second was attempted
C21_Witness ==
    /\ pc = "exit"
    /\ cli.formats = <<"html", "pdf">>
    /\ cli.constructed = <<"html", "pdf">>
    /\ "html" \notin cli.written
    /\ cli.exit = 1

C23_DirectoryCreatedIfMissing ==
    \A p \in Callers :
        /\ (mkdir[p].outcome = "RenderError" =>
                disk.denied /\ mkdir[p].cause = "PermissionError")
        /\ (mkdir[p].outcome = "ok" => \A d \in 1..mkdir[p].depth : is_dir(disk, d))
        /\ (mkdir[p].outcome # "running" /\ ~disk.denied => mkdir[p].outcome = "ok")

\* both calls were for the same directory: the first created it, the second
\* found it made by the first, and both succeeded
C23_Witness ==
    /\ mkdir[1].depth = mkdir[2].depth
    /\ mkdir[1].outcome = "ok"
    /\ mkdir[1].met = "none"
    /\ mkdir[2].outcome = "ok"
    /\ mkdir[2].met = "FileExistsError"
    /\ ~disk.denied

-----------------------------------------------------------------------------
(* The typed document and what is made of it *)

OptionalCollections == {"certifications", "projects", "awards", "publications", "languages"}

RequiredSections == {"personal_info", "professional_summary", "experience", "skills", "education"}

\* C24: in the context prepare_context returns, each of certifications,
\* projects, awards, publications and languages is a list and never None:
\* the document's list when the document has one, the empty list when the
\* document's field is None; the required sections are the document's own,
\* and the document is as it was before the call.
C24_OptionalSectionsNeverNone ==
    call.op = "prepare_context" =>
        /\ \A k \in OptionalCollections :
              /\ ~IsNone(call.returned[k])
              /\ Value(call.returned[k]) =
                    IF IsNone(call.document[k]) THEN <<>> ELSE Value(call.document[k])
        /\ \A k \in RequiredSections : call.returned[k] = call.document[k]
        /\ resume_data = call.document

C24_Witness ==
    /\ call.op = "prepare_context"
    /\ IsNone(call.document.certifications)
    /\ call.returned.certifications = Some(<<>>)
    /\ call.document.projects = Some(<<>>)
    /\ call.returned.languages = Some(<<"English", "French">>)

\* C25: for every validated document, JsonBuilder.build leaves a file that,
\* read back and given to the typed construction without its build_info and
\* analytics entries, gives a document equal to the original.
C25_JsonRoundTrip ==
    call.op = "build" =>
        /\ call.raised = "none"
        /\ ResumeDataFrom(WithoutInjected(Value(call.returned))) = Some(call.document)

\* C26: total_experience_years is professional_summary.years_experience
\* whenever that field is set, to any of its allowed values from 0 to 50;
\* otherwise it is the sum of duration_months over the experience entries
\* divided by 12 and rounded down, and at least 1.
C26_TotalExperienceYears ==
    call.op = "total_experience_years" =>
        LET years == call.document.professional_summary.years_experience
            experience == call.document.experience
            months == SumSeq([i \in 1..Len(experience) |->
                                 duration_months(experience[i], call.arguments.now)])
        IN  IF ~IsNone(years) THEN call.returned = Value(years)
            ELSE call.returned = Max(1, FloorDiv(months, 12))

\* the skills whose key is above the key of s
Above(all, i) == {j \in 1..Len(all) : KeyLess(SkillKey(all[i]), SkillKey(all[j]))}

\* the skills of the same key as the i-th that come before it
TiedBefore(all, i) == {j \in 1..(i - 1) : SkillKey(all[j]) = SkillKey(all[i])}

\* the place of the i-th skill in the order: after the skills of a higher
\* key and after the earlier skills of the same key
Place(all, i) == 1 + Cardinality(Above(all, i)) + Cardinality(TiedBefore(all, i))

\* C27: for limit >= 0, get_top_skills(limit) is the first min(limit, total)
\* skills of all the skills, taken category by category in insertion order
\* and put in descending order of (proficiency rank, years_experience or 0),
\* expert = 4, advanced = 3, intermediate = 2, beginner = 1; skills of equal
\* keys keep their order, and no more than limit skills are returned.
C27_TopSkillsStableDescending ==
    (call.op = "get_top_skills" /\ call.arguments.limit >= 0) =>
        LET all == AllSkills(call.document)
            top == call.returned
        IN  /\ Len(top) = Min(call.arguments.limit, Len(all))
            /\ Len(top) <= call.arguments.limit
            /\ \A i \in 1..Len(all) : Place(all, i) <= Len(top) => top[Place(all, i)] = all[i]

C27_Witness ==
    /\ call.op = "get_top_skills"
    /\ call.arguments.limit = 2
    /\ Len(AllSkills(call.document)) = 5
    /\ call.returned[1].name = "Python"
    /\ call.returned[2].name = "Rust"

\* C28: duration_months is (end_year - start_year) * 12 + (end_month -
\* start_month), the end being end_date when set and the current year and
\* month otherwise: 48 for a position begun in 2020-01, still open, seen in
\* 2024-01, and 24 for a position from 2020-01 to 2022-01.
C28_DurationMonths ==
    call.op = "duration_months" =>
        LET exp == call.document.experience[call.arguments.index]
            now == call.arguments.now
            start == exp.start_date
            end == IF exp.end_date = NoDate THEN <<now.year, now.month>> ELSE exp.end_date
        IN  /\ call.returned = (end[1] - start[1]) * 12 + (end[2] - start[2])
            /\ (start = <<2020, 1>> /\ exp.end_date = NoDate /\ now.year = 2024 /\ now.month = 1
                    => call.returned = 48)
            /\ (start = <<2020, 1>> /\ exp.end_date = <<2022, 1>> => call.returned = 24)

C28_Witness ==
    /\ call.op = "duration_months"
    /\ LET exp == call.document.experience[call.arguments.index]
       IN  exp.start_date = <<2020, 1>> /\ exp.end_date = NoDate
    /\ call.arguments.now = datetime(2024, 1, 15, 10)
    /\ call.returned = 48

-----------------------------------------------------------------------------
(* The business rules and the typed document *)

UnreachableWarnings == {NoEducationWarning, ShortSummaryWarning, LongSummaryWarning}

NoneUnreachable(ws) == \A i \in 1..Len(ws) : ws[i] \notin UnreachableWarnings

\* C29: for every input that passes Gate 2, validation emits neither 'No
\* education information found' nor any of the two warnings on the length of
\* the professional summary: the typed construction has already required an
\* education entry and an overview of 100 to 1000 characters.
C29_EducationAndSummaryNeverWarned ==
    /\ NoneUnreachable(warnings)
    /\ Returned => NoneUnreachable(result.warnings)
    /\ 3 \in {gates[i] : i \in 1..Len(gates)} =>
          /\ resume_data.education_n >= EducationMin
          /\ resume_data.overview_len >= OverviewMin
          /\ resume_data.overview_len <= OverviewMax

C29_Witness ==
    /\ Returned
    /\ gates = <<1, 2, 3>>
    /\ data.overview_len = OverviewMin
    /\ data.education_n = EducationMin
    /\ Len(result.warnings) > 0

\* how many times w occurs in ws
Occurrences(ws, w) == Cardinality({i \in 1..Len(ws) : ws[i] = w})

\* the two lists hold the same warnings, each as many times
SameMultiset(a, b) ==
    /\ \A i \in 1..Len(a) : Occurrences(a, a[i]) = Occurrences(b, a[i])
    /\ \A i \in 1..Len(b) : Occurrences(a, b[i]) = Occurrences(b, b[i])

\* the document with its experience entries in the order p
Reordered(doc, p) ==
    [doc EXCEPT !.experience = [i \in 1..Len(doc.experience) |-> doc.experience[p[i]]]]

\* C30: the warnings of a valid document do not depend on the order in which
\* its experience entries are declared: every permutation of the entries
\* gives the same multiset of warnings, entries of equal start_date included.
C30_WarningsIgnoreExperienceOrder ==
    (Returned /\ gates = <<1, 2, 3>>) =>
        \A p \in Permutations(1..Len(data.experience)) :
            SameMultiset(_validate_business_rules(Reordered(data, p)).warnings, result.warnings)

====
